---- MODULE Spec2Model ----
(***************************************************************************)
(* A model of github.com/Ak-Army/cli: the struct-tag flag binder            *)
(* (CLI.defineFlagSet), the sub-command resolver (CLI.getSubCommand), the   *)
(* dispatcher (CLI.Run), the help renderer (CLI.help) and the root command  *)
(* registry (Root.AddCommand).                                              *)
(*                                                                         *)
(* Go strings are modelled as sequences of one-character strings, so that   *)
(* strings.Split, strings.SplitN, strings.HasPrefix, strings.TrimLeft and   *)
(* the flag package's token syntax are computed, not assumed.               *)
(***************************************************************************)
EXTENDS Integers, Sequences, FiniteSets, TLC

(***************************************************************************)
(* Strings                                                                  *)
(***************************************************************************)

\* strings.HasPrefix(s, p)
HasPrefix(s, p) ==
    /\ Len(p) <= Len(s)
    /\ SubSeq(s, 1, Len(p)) = p

\* strings.Index(s, c) + 1 for a one-character c; 0 when c does not occur
IndexOf(s, c) ==
    IF \E i \in 1..Len(s) : s[i] = c
    THEN CHOOSE i \in 1..Len(s) : s[i] = c /\ \A j \in 1..(i - 1) : s[j] # c
    ELSE 0

\* the rest of s from index i (s[i-1:] in Go)
From(s, i) == SubSeq(s, i, Len(s))

\* strings.TrimLeft(s, "-")
RECURSIVE TrimLeftDash(_)
TrimLeftDash(s) ==
    IF Len(s) > 0 /\ s[1] = "-" THEN TrimLeftDash(Tail(s)) ELSE s

\* strings.Split(s, " "): always at least one element
RECURSIVE SplitSpace(_)
SplitSpace(s) ==
    LET i == IndexOf(s, " ")
    IN  IF i = 0 THEN <<s>>
        ELSE <<SubSeq(s, 1, i - 1)>> \o SplitSpace(From(s, i + 1))

\* strings.SplitN(tag, ",", 2) followed by the switch on len(flagData):
\* the flag name and the usage text of a struct tag
TagName(tag) ==
    LET i == IndexOf(tag, ",")
    IN  IF i = 0 THEN tag ELSE SubSeq(tag, 1, i - 1)

TagUsage(tag) ==
    LET i == IndexOf(tag, ",")
    IN  IF i = 0 THEN <<>> ELSE From(tag, i + 1)

(***************************************************************************)
(* Values: what the flag package's Set methods make of a value token.       *)
(* Integers are decimal here (strconv's base prefixes and underscores are   *)
(* not modelled); tokens are short, so no value reaches the 64-bit range    *)
(* limits.  A duration is kept in seconds.  A float64 is the pair of its    *)
(* decimal digits m and the number e of fraction digits, trailing zeros     *)
(* dropped, so that "1.50" and "1.5" are the same value.  The flag          *)
(* package's Set stores what strconv returned also when it returns an       *)
(* error, which for a syntax error is the zero value.                       *)
(***************************************************************************)

DigitChars == {"0", "1", "2", "3", "4", "5", "6", "7", "8", "9"}

DigitVal(c) ==
    CASE c = "0" -> 0 [] c = "1" -> 1 [] c = "2" -> 2 [] c = "3" -> 3
      [] c = "4" -> 4 [] c = "5" -> 5 [] c = "6" -> 6 [] c = "7" -> 7
      [] c = "8" -> 8 [] c = "9" -> 9

AllDigits(s) == Len(s) > 0 /\ \A i \in 1..Len(s) : s[i] \in DigitChars

RECURSIVE DecVal(_)
DecVal(s) ==
    IF Len(s) = 0 THEN 0
    ELSE 10 * DecVal(SubSeq(s, 1, Len(s) - 1)) + DigitVal(s[Len(s)])

Ok(v) == [ok |-> TRUE, v |-> v]
Bad(v) == [ok |-> FALSE, v |-> v]

\* strconv.ParseUint(s, 0, 64)
ParseUint(s) ==
    IF AllDigits(s) THEN Ok(DecVal(s)) ELSE Bad(0)

\* strconv.ParseInt(s, 0, 64)
ParseInt(s) ==
    IF Len(s) > 0 /\ s[1] \in {"+", "-"}
    THEN IF AllDigits(Tail(s))
         THEN Ok(IF s[1] = "-" THEN 0 - DecVal(Tail(s)) ELSE DecVal(Tail(s)))
         ELSE Bad(0)
    ELSE ParseUint(s)

\* strconv.ParseBool(s)
ParseBool(s) ==
    IF s \in {<<"1">>, <<"t">>, <<"T">>, <<"t", "r", "u", "e">>,
              <<"T", "R", "U", "E">>, <<"T", "r", "u", "e">>}
    THEN Ok(TRUE)
    ELSE IF s \in {<<"0">>, <<"f">>, <<"F">>, <<"f", "a", "l", "s", "e">>,
                   <<"F", "A", "L", "S", "E">>, <<"F", "a", "l", "s", "e">>}
         THEN Ok(FALSE)
         ELSE Bad(FALSE)

RECURSIVE Normal(_, _)
Normal(m, e) ==
    IF e > 0 /\ m % 10 = 0 THEN Normal(m \div 10, e - 1) ELSE [m |-> m, e |-> e]

\* strconv.ParseFloat(s, 64) on plain decimals: digits, at most one point
ParseFloat(s) ==
    LET neg == Len(s) > 0 /\ s[1] = "-"
        u == IF Len(s) > 0 /\ s[1] \in {"+", "-"} THEN Tail(s) ELSE s
        i == IndexOf(u, ".")
        ip == IF i = 0 THEN u ELSE SubSeq(u, 1, i - 1)
        fp == IF i = 0 THEN <<>> ELSE From(u, i + 1)
        digits == ip \o fp
        n == Normal(DecVal(digits), Len(fp))
    IN  IF AllDigits(digits)
        THEN Ok(IF neg THEN [m |-> 0 - n.m, e |-> n.e] ELSE n)
        ELSE Bad([m |-> 0, e |-> 0])

\* time.ParseDuration(s) on "0" and on one number with one of the units s, m, h
ParseDuration(s) ==
    IF s = <<"0">> THEN Ok(0)
    ELSE IF Len(s) >= 2 /\ AllDigits(SubSeq(s, 1, Len(s) - 1))
                        /\ s[Len(s)] \in {"s", "m", "h"}
         THEN LET n == DecVal(SubSeq(s, 1, Len(s) - 1))
              IN  Ok(CASE s[Len(s)] = "s" -> n
                       [] s[Len(s)] = "m" -> 60 * n
                       [] s[Len(s)] = "h" -> 3600 * n)
         ELSE Bad(0)

PrimitiveKinds ==
    {"bool", "int", "int64", "uint", "uint64", "float64", "string", "duration"}

\* a Set that keeps only the value of the last occurrence, whatever the type
SetValueOverwrites(kind, custom, old, s) ==
    CASE custom = "append" -> Ok(<<s>>)
      [] custom = "appendErr" -> Bad(<<s>>)
      [] custom = "" /\ kind = "bool" -> ParseBool(s)
      [] custom = "" /\ kind \in {"int", "int64"} -> ParseInt(s)
      [] custom = "" /\ kind \in {"uint", "uint64"} -> ParseUint(s)
      [] custom = "" /\ kind = "float64" -> ParseFloat(s)
      [] custom = "" /\ kind = "string" -> Ok(s)
      [] custom = "" /\ kind = "duration" -> ParseDuration(s)

\* flag.Value.Set of a registered flag: the built-in values of the flag package
\* for the primitive kinds, and the Set method of a custom value type
\* (CustomFlag appends and succeeds; CustomFlagError appends and fails).
SetValue(kind, custom, old, s) ==
    CASE custom = "append" -> Ok(Append(old, s))
      [] custom = "appendErr" -> Bad(Append(old, s))
      [] custom = "" /\ kind = "bool" -> ParseBool(s)
      [] custom = "" /\ kind \in {"int", "int64"} -> ParseInt(s)
      [] custom = "" /\ kind \in {"uint", "uint64"} -> ParseUint(s)
      [] custom = "" /\ kind = "float64" -> ParseFloat(s)
      [] custom = "" /\ kind = "string" -> Ok(s)
      [] custom = "" /\ kind = "duration" -> ParseDuration(s)

(***************************************************************************)
(* Struct types.  A field is its flag tag (<<>>: no tag), its reflect kind,  *)
(* whether it is exported, the Set behaviour of its type when a pointer to   *)
(* it implements flag.Value ("": it does not), and for a struct its type.    *)
(***************************************************************************)

Fld(tag, kind, exp, custom, elem) ==
    [tag |-> tag, kind |-> kind, exp |-> exp, custom |-> custom, elem |-> elem]

\* the command structs of the dispatch tree
TreeTypes ==
    {"Base", "LeafA", "Queue", "Info", "OpInfo", "Dialer", "LeafBad", "LeafP", "LeafXR",
     "LeafDup"}

\* the structs the binder is exercised on by its own
BindTypes ==
    {"TestFlags", "Nested", "Sentinel", "Defaults", "Wrong", "WrongDeep", "Hidden",
     "HidBelow", "HidWrong", "HidSent", "Deep"}

StructDef(t) ==
    CASE t = "Root" ->      \* root.go: Name, Version, Description, Authors, subCommands
           <<Fld(<<>>, "string", TRUE, "", ""),
             Fld(<<>>, "string", TRUE, "", ""),
             Fld(<<>>, "string", TRUE, "", ""),
             Fld(<<>>, "slice", TRUE, "", ""),
             Fld(<<>>, "ptr", FALSE, "", "")>>
      [] t = "Base" ->      \* examples/cmd/base: Verbose bool `flag:"v, ..."`
           <<Fld(<<"v", ",", "d">>, "bool", TRUE, "", "")>>
      [] t = "LeafA" ->     \* a leaf: a bool flag, an int flag with usage, an untagged field
           <<Fld(<<"v">>, "bool", TRUE, "", ""),
             Fld(<<"n", ",", "u">>, "int", TRUE, "", ""),
             Fld(<<>>, "int", TRUE, "", "")>>
      [] t = "Queue" ->     \* examples/cmd/queue.go: embeds base.Base
           <<Fld(<<>>, "struct", TRUE, "", "Base")>>
      [] t = "Info" ->      \* examples/cmd/queue/info.go: base.Base `flag:"base"`, a custom value, an int64
           <<Fld(<<"b">>, "struct", TRUE, "", "Base"),
             Fld(<<"c", ",", "u">>, "slice", TRUE, "append", ""),
             Fld(<<"q">>, "int64", TRUE, "", "")>>
      [] t = "OpInfo" ->    \* examples/cmd/queue/op_info.go: embeds base.Base, a string
           <<Fld(<<>>, "struct", TRUE, "", "Base"),
             Fld(<<"c">>, "string", TRUE, "", "")>>
      [] t = "Dialer" ->    \* examples/cmd/dialer.go: no fields
           <<>>
      [] t = "LeafBad" ->   \* a tagged unexported field
           <<Fld(<<"a">>, "int", FALSE, "", "")>>
      [] t = "LeafP" ->     \* a leaf with a custom value whose Set fails
           <<Fld(<<"e">>, "slice", TRUE, "appendErr", "")>>
      [] t = "LeafXR" ->    \* a leaf with two flags sharing a prefix
           <<Fld(<<"r">>, "bool", TRUE, "", ""),
             Fld(<<"r", "r">>, "string", TRUE, "", "")>>
      [] t = "LeafDup" ->   \* a leaf that embeds Base and declares v once more
           <<Fld(<<>>, "struct", TRUE, "", "Base"),
             Fld(<<"v">>, "bool", TRUE, "", "")>>
      [] t = "TestCommand" ->   \* flagger_test.go: *Flagger, Verbose bool `flag:"v"`
           <<Fld(<<>>, "ptr", TRUE, "", ""),
             Fld(<<"v">>, "bool", TRUE, "", "")>>
      [] t = "TestFlags" ->     \* flagger_test.go TestFlag: testcommand2
           <<Fld(<<>>, "struct", TRUE, "", "TestCommand"),
             Fld(<<"s", ",", "u">>, "string", TRUE, "", ""),
             Fld(<<"i", ",", "u">>, "int", TRUE, "", ""),
             Fld(<<"l">>, "int64", TRUE, "", ""),
             Fld(<<"u">>, "uint", TRUE, "", ""),
             Fld(<<"w">>, "uint64", TRUE, "", ""),
             Fld(<<"f">>, "float64", TRUE, "", ""),
             Fld(<<"b">>, "bool", TRUE, "", ""),
             Fld(<<"d">>, "duration", TRUE, "", ""),
             Fld(<<"c">>, "slice", TRUE, "append", ""),
             Fld(<<>>, "bool", TRUE, "", ""),
             Fld(<<>>, "int", TRUE, "", "")>>
      [] t = "Inner" ->         \* a struct nested twice: a leaf and an embedded Base
           <<Fld(<<"k">>, "int", TRUE, "", ""),
             Fld(<<>>, "struct", TRUE, "", "Base")>>
      [] t = "Nested" ->        \* a tagged struct, an embedded struct, a custom value of struct kind
           <<Fld(<<"t">>, "struct", TRUE, "", "Inner"),
             Fld(<<>>, "struct", TRUE, "", "Base"),
             Fld(<<"z">>, "struct", TRUE, "append", "Base")>>
      [] t = "Sentinel" ->      \* the exclusion sentinel on every sort of field
           <<Fld(<<"-">>, "int", TRUE, "", ""),
             Fld(<<"-", ",", "u">>, "slice", TRUE, "append", ""),
             Fld(<<"-">>, "struct", TRUE, "", "Base"),
             Fld(<<"-">>, "ptr", TRUE, "", ""),
             Fld(<<"g">>, "struct", TRUE, "", "SentInner"),
             Fld(<<"k">>, "int", TRUE, "", "")>>
      [] t = "SentInner" ->     \* a sentinel below a dotted prefix
           <<Fld(<<"-">>, "string", TRUE, "", ""),
             Fld(<<"m">>, "bool", TRUE, "", "")>>
      [] t = "Defaults" ->      \* flagger_test.go TestDefaultValueFlag, in small
           <<Fld(<<"s">>, "string", TRUE, "", ""),
             Fld(<<"i">>, "int", TRUE, "", ""),
             Fld(<<"c">>, "slice", TRUE, "append", ""),
             Fld(<<>>, "int", TRUE, "", "")>>
      [] t = "Wrong" ->         \* flagger_test.go TestWrongFlag: Apple *interface{} `flag:"apple"`
           <<Fld(<<"a", "p">>, "ptr", TRUE, "", "")>>
      [] t = "WrongDeep" ->     \* an unsupported type below a dotted prefix, after a good flag
           <<Fld(<<"k">>, "int", TRUE, "", ""),
             Fld(<<"t">>, "struct", TRUE, "", "Wrong")>>
      [] t = "Hidden" ->        \* a tagged unexported field after a good flag
           <<Fld(<<"k">>, "int", TRUE, "", ""),
             Fld(<<"h">>, "int", FALSE, "", "")>>
      [] t = "HidBelow" ->      \* a tagged unexported field inside a struct tagged "-"
           <<Fld(<<"-">>, "struct", TRUE, "", "LeafBad"),
             Fld(<<"k">>, "int", TRUE, "", "")>>
      [] t = "HidWrong" ->      \* a tagged unexported field of an unsupported type
           <<Fld(<<"a", "p">>, "ptr", FALSE, "", "")>>
      [] t = "HidSent" ->       \* an unexported field tagged "-"
           <<Fld(<<"-">>, "int", FALSE, "", "")>>
      [] t = "Deep" ->          \* a tagged struct that itself embeds an untagged struct
           <<Fld(<<"t">>, "struct", TRUE, "", "Inner"),
             Fld(<<"q">>, "int", TRUE, "", "")>>
      [] t = "Echo" ->          \* the tree-based variant's example: *cli.Flagger, Echoed string, an int
           <<Fld(<<>>, "ptr", TRUE, "", ""),
             Fld(<<"e", ",", "u">>, "string", TRUE, "", ""),
             Fld(<<"n">>, "int", TRUE, "", "")>>
      [] t = "Get" ->           \* a sub-command: *cli.Flagger, a bool
           <<Fld(<<>>, "ptr", TRUE, "", ""),
             Fld(<<"v">>, "bool", TRUE, "", "")>>
      [] t = "Kv" ->            \* a command with a sub-command: *cli.Flagger, an int, a tagged struct
           <<Fld(<<>>, "ptr", TRUE, "", ""),
             Fld(<<"t">>, "int", TRUE, "", ""),
             Fld(<<"b">>, "struct", TRUE, "", "Base")>>

(***************************************************************************)
(* Addresses and the field store.  A command is named by its identifier; a   *)
(* field of it by the command followed by the field indexes leading to it.   *)
(***************************************************************************)

\* the addresses of the fields that hold a value (every field that is not a
\* plain struct or a pointer), below address path of a struct of type t
RECURSIVE LeafAddrs(_, _)
LeafAddrs(t, path) ==
    UNION {LET f == StructDef(t)[i]
               addr == Append(path, i)
           IN  IF f.kind = "struct" /\ f.custom = ""
               THEN LeafAddrs(f.elem, addr)
               ELSE IF f.kind = "ptr" THEN {} ELSE {addr}
           : i \in 1..Len(StructDef(t))}

\* the field at an address <<i1, ..., ik>> below a struct of type t
RECURSIVE FieldAt(_, _)
FieldAt(t, idx) ==
    IF Len(idx) = 1 THEN StructDef(t)[idx[1]]
    ELSE FieldAt(StructDef(t)[idx[1]].elem, Tail(idx))

\* the zero value of a field
ZeroOf(f) ==
    CASE f.custom # "" -> <<>>
      [] f.custom = "" /\ f.kind = "bool" -> FALSE
      [] f.custom = "" /\ f.kind = "string" -> <<>>
      [] f.custom = "" /\ f.kind = "float64" -> [m |-> 0, e |-> 0]
      [] OTHER -> 0

(***************************************************************************)
(* Commands.  typ: the struct type; ptr: the Command value is a pointer;     *)
(* sub: it has the SubCommands capability, kids being the mapping it         *)
(* returns; parse / parseErr: it has the ParseHelper capability and what its *)
(* Parse would return; runErr: its Run returns an error.                     *)
(***************************************************************************)

Command(typ, sub, kids, parse, parseErr, runErr) ==
    [typ |-> typ, ptr |-> TRUE, sub |-> sub, kids |-> kids,
     parse |-> parse, parseErr |-> parseErr, runErr |-> runErr]

\* the commands a tree is built from
TreeCmds ==
    {"leafA", "queue", "info", "opInfo", "leafXR", "dialer", "leafBad", "leafP", "nodeBad",
     "leafDup"}

\* the commands of the tree-based variant; echoV is an Echo passed by value
VariantCmds == {"echo", "get", "kv", "echoV"}

\* the structs bound outside a tree
BindCmds ==
    {"tf", "nested", "sentinel", "defaults", "wrong", "wrongDeep", "hidden", "hidBelow",
     "hidWrong", "hidSent", "deep"}

Cmd(c) ==
    CASE c = "root" -> Command("Root", TRUE, {}, FALSE, FALSE, FALSE)
      [] c = "leafA" -> Command("LeafA", FALSE, {}, FALSE, FALSE, FALSE)
      [] c = "queue" ->
           Command("Queue", TRUE,
                   {<<(<<"x">>), "info">>, <<(<<"x", "r">>), "leafXR">>,
                    <<(<<"y">>), "opInfo">>},
                   TRUE, FALSE, TRUE)
      [] c = "info" -> Command("Info", FALSE, {}, FALSE, FALSE, FALSE)
      [] c = "opInfo" -> Command("OpInfo", FALSE, {}, FALSE, FALSE, TRUE)
      [] c = "leafXR" -> Command("LeafXR", FALSE, {}, FALSE, FALSE, FALSE)
      [] c = "dialer" -> Command("Dialer", TRUE, {}, FALSE, FALSE, TRUE)
      [] c = "leafBad" -> Command("LeafBad", FALSE, {}, FALSE, FALSE, FALSE)
      [] c = "nodeBad" -> Command("LeafBad", TRUE, {}, FALSE, FALSE, FALSE)
      [] c = "leafP" -> Command("LeafP", FALSE, {}, TRUE, TRUE, FALSE)
      [] c = "leafDup" -> Command("LeafDup", FALSE, {}, FALSE, FALSE, FALSE)
      [] c = "tf" -> Command("TestFlags", FALSE, {}, FALSE, FALSE, FALSE)
      [] c = "nested" -> Command("Nested", FALSE, {}, FALSE, FALSE, FALSE)
      [] c = "sentinel" -> Command("Sentinel", FALSE, {}, FALSE, FALSE, FALSE)
      [] c = "defaults" -> Command("Defaults", FALSE, {}, FALSE, FALSE, FALSE)
      [] c = "wrong" -> Command("Wrong", FALSE, {}, FALSE, FALSE, FALSE)
      [] c = "wrongDeep" -> Command("WrongDeep", FALSE, {}, FALSE, FALSE, FALSE)
      [] c = "hidden" -> Command("Hidden", FALSE, {}, FALSE, FALSE, FALSE)
      [] c = "hidBelow" -> Command("HidBelow", FALSE, {}, FALSE, FALSE, FALSE)
      [] c = "hidWrong" -> Command("HidWrong", FALSE, {}, FALSE, FALSE, FALSE)
      [] c = "hidSent" -> Command("HidSent", FALSE, {}, FALSE, FALSE, FALSE)
      [] c = "deep" -> Command("Deep", FALSE, {}, FALSE, FALSE, FALSE)
      [] c = "echo" -> Command("Echo", FALSE, {}, FALSE, FALSE, FALSE)
      [] c = "get" -> Command("Get", FALSE, {}, FALSE, FALSE, FALSE)
      [] c = "kv" -> Command("Kv", TRUE, {}, FALSE, FALSE, FALSE)
      [] c = "echoV" -> [Command("Echo", FALSE, {}, FALSE, FALSE, FALSE) EXCEPT !.ptr = FALSE]

\* every field that holds a value, of every command
Addrs ==
    UNION {LeafAddrs(Cmd(c).typ, <<c>>) : c \in TreeCmds \cup BindCmds \cup VariantCmds}

\* the field at an address
FieldOf(addr) == FieldAt(Cmd(addr[1]).typ, Tail(addr))

(***************************************************************************)
(* The flag set (flag.FlagSet behind the Flagger interface) and the binder.  *)
(* A binding in progress is b = [fs, fields, err, panic]: the flags          *)
(* registered, the field store, the error returned (msg "": nil) and         *)
(* whether the flag package panicked.                                        *)
(***************************************************************************)

NoErr == [msg |-> "", flag |-> <<>>]
Err(m) == [msg |-> m, flag |-> <<>>]
ErrFlag(m, name) == [msg |-> m, flag |-> name]

Flag(name, addr, kind, custom, usage) ==
    [name |-> name, addr |-> addr, kind |-> kind, custom |-> custom, usage |-> usage]

FsNames(fs) == {f.name : f \in fs}

FsLookup(fs, name) == CHOOSE f \in fs : f.name = name

\* flag.FlagSet.Var: a name already registered panics ("flag redefined")
FlagSetVar(b, name, addr, kind, custom, usage) ==
    IF name \in FsNames(b.fs)
    THEN [b EXCEPT !.panic = TRUE]
    ELSE [b EXCEPT !.fs = @ \cup {Flag(name, addr, kind, custom, usage)}]

\* a registration that stores the type's zero value as the default
FlagSetPrimVarZero(b, name, addr, kind, value, usage) ==
    FlagSetVar([b EXCEPT !.fields[addr] =
                   CASE kind = "bool" -> FALSE
                     [] kind = "string" -> <<>>
                     [] kind = "float64" -> [m |-> 0, e |-> 0]
                     [] OTHER -> 0],
               name, addr, kind, "", usage)

\* flag.FlagSet.IntVar(p, name, value, usage) and its siblings:
\* *p = value, then Var
FlagSetPrimVar(b, name, addr, kind, value, usage) ==
    FlagSetVar([b EXCEPT !.fields[addr] = value], name, addr, kind, "", usage)

\* the flag name of the field tagged tag below the dotted prefix subName
\* (lines 340-342)
FlagName(subName, tag) ==
    IF subName # <<>> THEN subName \o <<".">> \o TagName(tag) ELSE TagName(tag)

\* one tagged field of defineFlagSet's loop, from the exclusion sentinel on
\* (lines 337-372); rec(b2, t, addr, subName) is the recursive call
RECURSIVE DefineFrom(_, _, _, _, _, _)
\* a binder that tests the exclusion sentinel on the prefixed name
DefineTaggedPrefixedSentinel(b, f, addr, subName, ro) ==
    LET name == FlagName(subName, f.tag)
    IN  IF name = <<"-">> THEN b
        ELSE IF f.custom # ""
             THEN FlagSetVar(b, name, addr, f.kind, f.custom, TagUsage(f.tag))
             ELSE IF f.kind = "struct"
                  THEN DefineFrom(b, f.elem, addr, name, ro, 1)
                  ELSE IF f.kind \in PrimitiveKinds
                       THEN FlagSetPrimVar(b, name, addr, f.kind, b.fields[addr],
                                           TagUsage(f.tag))
                       ELSE [b EXCEPT !.err =
                               ErrFlag("field with flag tag value is of unsupported type",
                                       name)]

\* a binder whose unsupported-type error does not tell the flag
DefineTaggedUnnamedError(b, f, addr, subName, ro) ==
    LET name == FlagName(subName, f.tag)
    IN  IF TagName(f.tag) = <<"-">> THEN b
        ELSE IF f.custom # ""
             THEN FlagSetVar(b, name, addr, f.kind, f.custom, TagUsage(f.tag))
             ELSE IF f.kind = "struct"
                  THEN DefineFrom(b, f.elem, addr, name, ro, 1)
                  ELSE IF f.kind \in PrimitiveKinds
                       THEN FlagSetPrimVar(b, name, addr, f.kind, b.fields[addr],
                                           TagUsage(f.tag))
                       ELSE [b EXCEPT !.err =
                               Err("field with flag tag value is of unsupported type")]

DefineTagged(b, f, addr, subName, ro) ==
    LET name == FlagName(subName, f.tag)
    IN  IF TagName(f.tag) = <<"-">> THEN b
        ELSE IF f.custom # ""
             THEN FlagSetVar(b, name, addr, f.kind, f.custom, TagUsage(f.tag))
             ELSE IF f.kind = "struct"
                  THEN DefineFrom(b, f.elem, addr, name, ro, 1)
                  ELSE IF f.kind \in PrimitiveKinds
                       THEN FlagSetPrimVar(b, name, addr, f.kind, b.fields[addr],
                                           TagUsage(f.tag))
                       ELSE [b EXCEPT !.err =
                               ErrFlag("field with flag tag value is of unsupported type",
                                       name)]

\* a binder that passes over a tagged field it cannot reach
DefineFieldSkipsUnexported(b, f, addr, subName, ro) ==
    IF f.tag = <<>>
    THEN IF f.kind = "struct"
         THEN DefineFrom(b, f.elem, addr, <<>>, ro \/ ~f.exp, 1)
         ELSE b
    ELSE IF ro \/ ~f.exp
         THEN b
         ELSE DefineTagged(b, f, addr, subName, ro)

\* one field of defineFlagSet's loop (lines 311-372).  ro: the struct was
\* reached through an unexported field, so CanInterface is false below it.
\* The struct is reached through the command pointer, so CanAddr holds.
DefineField(b, f, addr, subName, ro) ==
    IF f.tag = <<>>
    THEN IF f.kind = "struct"
         THEN DefineFrom(b, f.elem, addr, <<>>, ro \/ ~f.exp, 1)
         ELSE b
    ELSE IF ro \/ ~f.exp
         THEN [b EXCEPT !.err = Err("field is unexported")]
         ELSE DefineTagged(b, f, addr, subName, ro)

\* defineFlagSet's loop over the fields i.. of the struct of type t at path
DefineFrom(b, t, path, subName, ro, i) ==
    IF b.err # NoErr \/ b.panic \/ i > Len(StructDef(t)) THEN b
    ELSE DefineFrom(DefineField(b, StructDef(t)[i], Append(path, i), subName, ro),
                    t, path, subName, ro, i + 1)

\* CLI.defineFlagSet(fs, st, subName) on the struct of command c
DefineFlagSet(b, c, subName) ==
    DefineFrom(b, Cmd(c).typ, <<c>>, subName, FALSE, 1)

\* CLI.getFlagSet(c) on the flag set in b
GetFlagSet(b, c) ==
    IF ~Cmd(c).ptr THEN [b EXCEPT !.err = Err("pointer expected")]
    ELSE DefineFlagSet(b, c, <<>>)

(***************************************************************************)
(* flag.FlagSet.Parse (the zero FlagSet continues on error and returns it).  *)
(* The result is [fields, err, rest]: the store after the Set calls made,    *)
(* the error, and the arguments left after the flags.                        *)
(***************************************************************************)

Parsed(fields, err, rest) == [fields |-> fields, err |-> err, rest |-> rest]

\* the flag package's bool values are the only ones with IsBoolFlag
IsBoolFlag(f) == f.kind = "bool" /\ f.custom = ""

\* the end of parseOne: r is what the flag's Set made of the value token
AfterSet(fields, f, r, msg, rest) ==
    Parsed([fields EXCEPT ![f.addr] = r.v],
           IF r.ok THEN NoErr ELSE ErrFlag(msg, f.name),
           rest)

\* flag.FlagSet.parseOne from the flag lookup on: name is the flag's name,
\* hasValue / value what followed "=", rest the arguments after this token.
\* The result's rest is Tail-ed by the value token when one is consumed; its
\* err tells whether parsing goes on.
ParseFlagToken(fs, fields, name, hasValue, value, rest) ==
    IF name \notin FsNames(fs)
    THEN IF name \in {<<"h">>, <<"h", "e", "l", "p">>}
         THEN Parsed(fields, Err("flag: help requested"), rest)
         ELSE Parsed(fields, ErrFlag("flag provided but not defined", name), rest)
    ELSE LET f == FsLookup(fs, name)
         IN  IF IsBoolFlag(f)
             THEN AfterSet(fields, f,
                           SetValue(f.kind, f.custom, fields[f.addr],
                                    IF hasValue THEN value ELSE <<"t", "r", "u", "e">>),
                           "invalid boolean value", rest)
             ELSE IF ~hasValue /\ Len(rest) = 0
                  THEN Parsed(fields, ErrFlag("flag needs an argument", name), rest)
                  ELSE AfterSet(fields, f,
                                SetValue(f.kind, f.custom, fields[f.addr],
                                         IF hasValue THEN value ELSE rest[1]),
                                "invalid value",
                                IF hasValue THEN rest ELSE Tail(rest))

RECURSIVE FlagParse(_, _, _)
RECURSIVE ParseOn(_, _)
FlagParse(fs, fields, args) ==
    IF Len(args) = 0 THEN Parsed(fields, NoErr, <<>>)
    ELSE LET s == args[1]
         IN  IF Len(s) < 2 \/ s[1] # "-" THEN Parsed(fields, NoErr, args)
             ELSE LET minuses == IF s[2] = "-" THEN 2 ELSE 1
                      nm == From(s, minuses + 1)
                      eq == IndexOf(nm, "=")
                      name == IF eq = 0 THEN nm ELSE SubSeq(nm, 1, eq - 1)
                      value == IF eq = 0 THEN <<>> ELSE From(nm, eq + 1)
                  IN  IF minuses = 2 /\ Len(s) = 2
                      THEN Parsed(fields, NoErr, Tail(args))
                      ELSE IF Len(nm) = 0 \/ nm[1] \in {"-", "="}
                           THEN Parsed(fields, ErrFlag("bad flag syntax", s), Tail(args))
                           ELSE ParseOn(fs, ParseFlagToken(fs, fields, name, eq # 0,
                                                           value, Tail(args)))

\* a parser that keeps the first error and goes on with the tokens after it
ParseOnPastError(fs, one) ==
    IF one.err = NoErr \/ Len(one.rest) = 0
    THEN IF one.err # NoErr THEN one ELSE FlagParse(fs, one.fields, one.rest)
    ELSE Parsed(FlagParse(fs, one.fields, one.rest).fields, one.err, one.rest)

\* the loop of flag.FlagSet.Parse: it goes on after a token parsed without error
ParseOn(fs, one) ==
    IF one.err # NoErr THEN one ELSE FlagParse(fs, one.fields, one.rest)

(***************************************************************************)
(* CLI.getSubCommand.  The result is                                         *)
(*   c, err      the command and error returned ("nil": no command),         *)
(*   fs, fields  the dispatch flag set and the store after it,               *)
(*   panic       the flag package panicked on the way,                       *)
(*   scan        what is known of cli.lastCommandsName: it is empty          *)
(*               (cleared), or it was filled by the loop over the names      *)
(*               `all` of one node, which ran to the end (hit = FALSE) or    *)
(*               returned at the name `name` (hit = TRUE).  Go iterates a    *)
(*               map in an unspecified order, so the names seen before the   *)
(*               match are any of the others, in any order.                  *)
(***************************************************************************)

Nil == "nil"

Scan(all, hit, name) == [cleared |-> FALSE, all |-> all, hit |-> hit, name |-> name]
Cleared == [cleared |-> TRUE, all |-> {}, hit |-> FALSE, name |-> <<>>]

Resolved(c, err, fs, fields, panic, scan) ==
    [c |-> c, err |-> err, fs |-> fs, fields |-> fields, panic |-> panic, scan |-> scan]

KidNames(kids) == {k[1] : k \in kids}
KidOf(kids, name) == (CHOOSE k \in kids : k[1] = name)[2]

\* lines 227-230: what getSubCommand returns for the leaf c after the parse r
LeafParsed(c, fs, scan, r) == Resolved(c, r.err, fs, r.fields, FALSE, scan)

\* a leaf whose flag-parse error is dropped
ParseLeafIgnoresError(c, fs, fields, args, scan) ==
    Resolved(c, NoErr, fs,
             FlagParse(fs, fields, IF Len(args) > 1 THEN Tail(args) ELSE <<>>).fields,
             FALSE, scan)

\* lines 223-230: the matched command c is a leaf: every token after its
\* name goes to the flag parser
ParseLeaf(c, fs, fields, args, scan) ==
    LeafParsed(c, fs, scan, FlagParse(fs, fields, IF Len(args) > 1 THEN Tail(args) ELSE <<>>))

\* a caller that keeps its own command whatever the recursive call resolved
AfterSubKeepsParent(c, sub) ==
    LET scan == IF sub.c # Nil THEN Cleared ELSE sub.scan
    IN  IF sub.panic THEN sub
        ELSE IF sub.err # NoErr
             THEN Resolved(c, sub.err, sub.fs, sub.fields, FALSE, scan)
             ELSE IF sub.c = Nil
                  THEN Resolved(c, Err("wrong sub command"), sub.fs, sub.fields,
                                FALSE, scan)
                  ELSE Resolved(c, NoErr, sub.fs, sub.fields, FALSE, scan)

\* a caller that hands on whatever the recursive call resolved, also nothing
AfterSubPassesNil(c, sub) ==
    IF sub.panic THEN sub
    ELSE Resolved(sub.c, sub.err, sub.fs, sub.fields, FALSE,
                  IF sub.c # Nil THEN Cleared ELSE sub.scan)

\* lines 208-221: what the caller makes of the recursive call's result sub
AfterSub(c, sub) ==
    LET scan == IF sub.c # Nil THEN Cleared ELSE sub.scan
    IN  IF sub.panic THEN sub
        ELSE IF sub.err # NoErr
             THEN Resolved(IF sub.c = Nil THEN c ELSE sub.c, sub.err,
                           sub.fs, sub.fields, FALSE, scan)
             ELSE IF sub.c = Nil
                  THEN Resolved(c, Err("wrong sub command"), sub.fs, sub.fields,
                                FALSE, scan)
                  ELSE Resolved(sub.c, NoErr, sub.fs, sub.fields, FALSE, scan)

RECURSIVE GetSubCommand(_, _, _, _)
RECURSIVE AfterBind(_, _, _, _)
\* a resolver that binds every matched command to a flag set of its own
MatchedOnFreshFlagSet(kids, fs, fields, args) ==
    AfterBind(KidOf(kids, args[1]), Scan(KidNames(kids), TRUE, args[1]),
              GetFlagSet([fs |-> {}, fields |-> fields, err |-> NoErr, panic |-> FALSE],
                         KidOf(kids, args[1])),
              args)

\* lines 200-231: the loop found args[1] among the names of kids
Matched(kids, fs, fields, args) ==
    AfterBind(KidOf(kids, args[1]), Scan(KidNames(kids), TRUE, args[1]),
              GetFlagSet([fs |-> fs, fields |-> fields, err |-> NoErr, panic |-> FALSE],
                         KidOf(kids, args[1])),
              args)

\* a resolver that takes a command whose SubCommands mapping is empty for a leaf
AfterBindEmptyIsLeaf(c, scan, b, args) ==
    IF b.panic THEN Resolved(c, NoErr, b.fs, b.fields, TRUE, scan)
    ELSE IF b.err # NoErr THEN Resolved(c, b.err, b.fs, b.fields, FALSE, scan)
    ELSE IF Cmd(c).sub /\ Cmd(c).kids # {}
         THEN IF Len(args) <= 1
              THEN Resolved(c, Err("missing sub command"), b.fs, b.fields, FALSE, scan)
              ELSE AfterSub(c, GetSubCommand(Cmd(c).kids, b.fs, b.fields, Tail(args)))
         ELSE ParseLeaf(c, b.fs, b.fields, args, scan)

\* lines 201-230: the matched command c after its binding b
AfterBind(c, scan, b, args) ==
    IF b.panic THEN Resolved(c, NoErr, b.fs, b.fields, TRUE, scan)
    ELSE IF b.err # NoErr THEN Resolved(c, b.err, b.fs, b.fields, FALSE, scan)
    ELSE IF Cmd(c).sub
         THEN IF Len(args) <= 1
              THEN Resolved(c, Err("missing sub command"), b.fs, b.fields, FALSE, scan)
              ELSE AfterSub(c, GetSubCommand(Cmd(c).kids, b.fs, b.fields, Tail(args)))
         ELSE ParseLeaf(c, b.fs, b.fields, args, scan)

\* CLI.getSubCommand(command, args), kids being command.SubCommands()
GetSubCommand(kids, fs, fields, args) ==
    IF args[1] \in KidNames(kids)
    THEN Matched(kids, fs, fields, args)
    ELSE Resolved(Nil, NoErr, fs, fields, FALSE, Scan(KidNames(kids), FALSE, <<>>))

\* every order in which the elements of S can be listed
Orders(S) ==
    {s \in [1..Cardinality(S) -> S] : \A i, j \in DOMAIN s : i # j => s[i] # s[j]}

\* the values cli.lastCommandsName can have after a scan
LastNames(scan) ==
    IF scan.cleared THEN {<<>>}
    ELSE IF ~scan.hit THEN Orders(scan.all)
         ELSE {Append(p, scan.name) :
                 p \in UNION {Orders(S) : S \in SUBSET (scan.all \ {scan.name})}}

(***************************************************************************)
(* Byte order of strings (flag.FlagSet.VisitAll and text/template's range    *)
(* over a map both go through the names in sorted order).                    *)
(***************************************************************************)

CharOrder ==
    <<"-", ".", "0", "1", "2", "3", "4", "5", "6", "7", "8", "9", "=",
      "a", "b", "c", "d", "e", "f", "g", "h", "i", "j", "k", "l", "m",
      "n", "o", "p", "q", "r", "s", "t", "u", "v", "w", "x", "y", "z">>

Rank(c) == CHOOSE i \in 1..Len(CharOrder) : CharOrder[i] = c

RECURSIVE StrLess(_, _)
StrLess(s, t) ==
    IF Len(t) = 0 THEN FALSE
    ELSE IF Len(s) = 0 THEN TRUE
    ELSE IF s[1] = t[1] THEN StrLess(Tail(s), Tail(t))
    ELSE Rank(s[1]) < Rank(t[1])

RECURSIVE Sorted(_)
Sorted(S) ==
    IF S = {} THEN <<>>
    ELSE LET m == CHOOSE x \in S : \A y \in S \ {x} : StrLess(x, y)
         IN  <<m>> \o Sorted(S \ {m})

(***************************************************************************)
(* Output.  What is written to a writer is a sequence of events: an error    *)
(* line ("err", with the error), a rendered help text ("help": of which      *)
(* command, from which template, and whether the template ran to its end)    *)
(* or a completion candidate ("line", with its text).                        *)
(***************************************************************************)

ErrLine(err) ==
    [kind |-> "err", cmd |-> Nil, err |-> err, tmpl |-> "", done |-> TRUE, text |-> <<>>]
HelpText(c, tmpl, done) ==
    [kind |-> "help", cmd |-> c, err |-> NoErr, tmpl |-> tmpl, done |-> done, text |-> <<>>]
Line(text) ==
    [kind |-> "line", cmd |-> Nil, err |-> NoErr, tmpl |-> "", done |-> TRUE, text |-> text]

\* the mapping Root.SubCommands() returns, as pairs
RootKids(sub) == {<<n, sub[n]>> : n \in DOMAIN sub}

\* c.SubCommands() as help and the resolver see it
KidsOf(c, sub) ==
    IF c = "root" THEN RootKids(sub) ELSE Cmd(c).kids

\* a usage text made from a binding that stores zero values as the defaults
FlagSetTextZeroes(b) ==
    [fails |-> b.panic,
     fields |-> [a \in DOMAIN b.fields |->
                   IF a \in {f.addr : f \in b.fs} THEN ZeroOf(FieldOf(a))
                   ELSE b.fields[a]]]

\* lines 254-258 after the binding b: a binding error is returned as the text
FlagSetText(b) == [fails |-> b.panic, fields |-> b.fields]

\* the template function flagSet (lines 244-259) on command c: a throwaway
\* flag set is bound to c's struct.  fails: the function panics (err is nil
\* when it is dereferenced for a command that is no pointer; flag.Var panics
\* on a name registered twice), which text/template turns into an error of
\* Execute.
FlagSetFunc(c, fields) ==
    IF ~Cmd(c).ptr THEN [fails |-> TRUE, fields |-> fields]
    ELSE FlagSetText(DefineFlagSet([fs |-> {}, fields |-> fields, err |-> NoErr,
                                    panic |-> FALSE], c, <<>>))

\* t.Execute over the commands cs in the order the template reaches them:
\* it stops at the first failure
RECURSIVE Execute(_, _)
RECURSIVE ExecuteOn(_, _)
Execute(cs, fields) ==
    IF Len(cs) = 0 THEN [done |-> TRUE, fields |-> fields]
    ELSE ExecuteOn(cs, FlagSetFunc(cs[1], fields))

\* r is what the flagSet function made of the first command of cs
ExecuteOn(cs, r) ==
    IF r.fails THEN [done |-> FALSE, fields |-> r.fields]
    ELSE Execute(Tail(cs), r.fields)

\* a renderer that writes the help text to the error writer in every case
HelpOnErrorWriter(c, err, sub, template, fields) ==
    [helpW |-> <<>>,
     errW |-> IF err # NoErr THEN <<ErrLine(err), HelpText(c, "default", TRUE)>>
              ELSE <<HelpText(c, "default", TRUE)>>,
     fields |-> fields]

\* the template parsed by CLI.help (line 259)
HelpTemplate(template) == "default"

\* the commands of the mapping kids in the order of their names (lines 272-289
\* and the template's range)
Listed(kids) ==
    [i \in 1..Cardinality(kids) |-> KidOf(kids, Sorted(KidNames(kids))[i])]

\* lines 237-241 and 290: what help writes, x being the template's execution
HelpWrites(c, err, template, x) ==
    IF err # NoErr
    THEN [helpW |-> <<>>,
          errW |-> <<ErrLine(err), HelpText(c, HelpTemplate(template), x.done)>>,
          fields |-> x.fields]
    ELSE [helpW |-> <<HelpText(c, HelpTemplate(template), x.done)>>,
          errW |-> <<>>,
          fields |-> x.fields]

\* CLI.help(c, err): [helpW, errW, fields]
Help(c, err, sub, template, fields) ==
    HelpWrites(c, err, template,
               Execute(<<c>> \o Listed(IF Cmd(c).sub THEN KidsOf(c, sub) ELSE {}), fields))

(***************************************************************************)
(* CLI.Run                                                                   *)
(***************************************************************************)

\* a completion that takes the whole line whatever the cursor offset
CompleteLineWhole(line, point) == line

\* CLI.isCompleteStarted on the environment COMP_LINE = line, COMP_POINT = point
CompleteLine(line, point) ==
    LET p == ParseInt(point)
    IN  IF p.ok /\ p.v > 0 /\ p.v < Len(line) THEN SubSeq(line, 1, p.v) ELSE line

IsCompleteStarted(line) == line # <<>>

\* a Run that appends an empty name in place of the default command
RunArgsNoDefault(args, line, point, dflt) ==
    LET a == IF IsCompleteStarted(line) THEN SplitSpace(CompleteLine(line, point))
             ELSE args
    IN  IF Len(a) = 1 THEN Append(a, <<>>) ELSE a

\* the argument vector the resolver works on (lines 142-152)
RunArgs(args, line, point, dflt) ==
    LET a == IF IsCompleteStarted(line) THEN SplitSpace(CompleteLine(line, point))
             ELSE args
    IN  IF Len(a) = 1 THEN Append(a, dflt) ELSE a

\* lines 154-170: the completion candidates written to the help writer
Candidates(args, last, fs) ==
    LET lastArg == TrimLeftDash(args[Len(args)])
        names == Sorted(FsNames(fs))
    IN  IF Len(last) > 0
        THEN [i \in 1..Len(SelectSeq(last, LAMBDA n : HasPrefix(n, lastArg)))
                |-> Line(SelectSeq(last, LAMBDA n : HasPrefix(n, lastArg))[i])]
        ELSE [i \in 1..Len(SelectSeq(names, LAMBDA n : HasPrefix(n, lastArg)))
                |-> Line(<<"-">> \o SelectSeq(names, LAMBDA n : HasPrefix(n, lastArg))[i])]

Outcome(c, err, fs, fields, last, helpW, errW, ran, panic) ==
    [c |-> c, err |-> err, fs |-> fs, fields |-> fields, last |-> last,
     helpW |-> helpW, errW |-> errW, ran |-> ran, panic |-> panic]

\* Run's outcome when it ends in the help h, having invoked the commands ran
Helped(r, last, h, ran) ==
    Outcome(r.c, r.err, r.fs, h.fields, last, h.helpW, h.errW, ran, FALSE)

\* a Run that invokes the resolved command although the resolver failed
DispatchRunsOnError(r, last, sub, template) ==
    IF r.c = Nil
    THEN Helped(r, last, Help("root", NoErr, sub, template, r.fields), <<>>)
    ELSE IF r.err # NoErr \/ Cmd(r.c).runErr
    THEN Helped(r, last, Help(r.c, Err("run failed"), sub, template, r.fields), <<r.c>>)
    ELSE Outcome(r.c, r.err, r.fs, r.fields, last, <<>>, <<>>, <<r.c>>, FALSE)

\* lines 171-182: what Run does with the resolver's result r outside completion
Dispatch(r, last, sub, template) ==
    IF r.err # NoErr
    THEN Helped(r, last, Help(r.c, r.err, sub, template, r.fields), <<>>)
    ELSE IF r.c = Nil
    THEN Helped(r, last, Help("root", NoErr, sub, template, r.fields), <<>>)
    ELSE IF Cmd(r.c).runErr
    THEN Helped(r, last, Help(r.c, Err("run failed"), sub, template, r.fields), <<r.c>>)
    ELSE Outcome(r.c, r.err, r.fs, r.fields, last, <<>>, <<>>, <<r.c>>, FALSE)

\* the resolver's result for one call of CLI.Run
RunResolve(sub, dflt, fs, fields, args, line, point) ==
    GetSubCommand(RootKids(sub), fs, fields, Tail(RunArgs(args, line, point, dflt)))

\* a Run that goes on to dispatch under the completion environment
RunFinishDispatchesInCompletion(r, last, sub, dflt, template, args, line, point) ==
    IF r.panic
    THEN Outcome(r.c, r.err, r.fs, r.fields, last, <<>>, <<>>, <<>>, TRUE)
    ELSE Dispatch(r, last, sub, template)

\* CLI.Run from the resolver's result r on, last being the value the map
\* iteration left in cli.lastCommandsName
RunFinish(r, last, sub, dflt, template, args, line, point) ==
    IF r.panic
    THEN Outcome(r.c, r.err, r.fs, r.fields, last, <<>>, <<>>, <<>>, TRUE)
    ELSE IF IsCompleteStarted(line)
    THEN Outcome(r.c, r.err, r.fs, r.fields, last,
                 Candidates(RunArgs(args, line, point, dflt), last, r.fs),
                 <<>>, <<>>, FALSE)
    ELSE Dispatch(r, last, sub, template)

(***************************************************************************)
(* Root.AddCommand                                                           *)
(***************************************************************************)

\* a registry in which the last registration of a name wins
RootAddCommandOverwrites(sub, name, cmd) ==
    IF name \in DOMAIN sub
    THEN [sub |-> [sub EXCEPT ![name] = cmd], ret |-> FALSE]
    ELSE [sub |-> (name :> cmd) @@ sub, ret |-> TRUE]

\* Root.AddCommand(name, command) on the mapping sub: [sub, ret]
RootAddCommand(sub, name, cmd) ==
    IF name \in DOMAIN sub
    THEN [sub |-> sub, ret |-> FALSE]
    ELSE [sub |-> (name :> cmd) @@ sub, ret |-> TRUE]

(***************************************************************************)
(* State                                                                     *)
(***************************************************************************)

VARIABLES
    subCommands,        \* Root.subCommands of the CLI's root
    firstAdded,         \* history: the command of the first AddCommand call made with each name
    defaultCommand,     \* CLI.defaultCommand
    template,           \* CLI.template
    autoComplete,       \* CLI.AutoComplete
    flagSet,            \* CLI.flagSet: the flags registered in the dispatch flag set
    fields,             \* the values of the fields of the command structs
    lastCommandsName,   \* CLI.lastCommandsName
    helpW,              \* what the last call wrote to CLI.HelpWriter
    errW,               \* what the last call wrote to CLI.ErrorWriter
    ran,                \* the commands whose Run the last call invoked, in order
    parseCalls,         \* the commands whose ParseHelper.Parse the last call invoked
    panicked,           \* a panic left the engine (the flag package's "flag redefined")
    call,               \* the last call: the operation, its inputs, the state it started from
    res,                \* what the last call returned or resolved
    runs,               \* the number of calls made of the bounded operation
    commandSets         \* the tree-based variant: the nodes below CLI.commandSets["root"]

vars ==
    <<subCommands, firstAdded, defaultCommand, template, autoComplete, flagSet, fields,
      lastCommandsName, helpW, errW, ran, parseCalls, panicked, call, res, runs,
      commandSets>>

\* the calls of CLI.Run one behaviour makes
MaxRuns == 2

Call(op, name, cmd, args, line, point) ==
    [op |-> op, name |-> name, cmd |-> cmd, args |-> args, line |-> line, point |-> point,
     preSub |-> subCommands, preFs |-> flagSet, preFields |-> fields]

Res(c, err, ret) == [c |-> c, err |-> err, ret |-> ret]

(***************************************************************************)
(* Inputs                                                                    *)
(***************************************************************************)

Prog == <<"p">>
NameA == <<"a">>
NameB == <<"b">>
NameC == <<"c">>
NameX == <<"x">>
NameXR == <<"x", "r">>
NameY == <<"y">>

\* the calls of AddCommand a host makes
Registrations ==
    {<<NameA, "leafA">>, <<NameA, "leafP">>, <<NameA, "leafBad">>, <<NameA, "leafDup">>,
     <<NameB, "queue">>, <<NameB, "dialer">>, <<NameB, "nodeBad">>}

\* argument vectors: a command path and what follows it
ArgVs ==
    {<<Prog>>, <<Prog, NameC>>, <<Prog, NameC, <<"-", "v">> >>,
     <<Prog, NameB>>, <<Prog, NameB, NameC>>, <<Prog, NameB, <<"-", "v">> >>}
    \cup
    {<<Prog, NameA>> \o t : t \in
       {<<>>,
        <<(<<"-", "v">>)>>,
        <<(<<"-", "n">>), (<<"7">>)>>,
        <<(<<"-", "n">>), (<<"k">>)>>,
        <<(<<"-", "n">>)>>,
        <<(<<"-", "u">>)>>,
        <<(<<"-", "v">>), (<<"-", "-", "n", "=", "4", "2">>), (<<"z">>)>>,
        <<(<<"-", "e">>), (<<"k">>)>>,
        <<(<<"-", "h">>)>>,
        <<(<<"z">>), (<<"-", "u">>)>>}}
    \cup
    {<<Prog, NameB, NameX>> \o t : t \in
       {<<>>,
        <<(<<"-", "v">>)>>,
        <<(<<"-", "b", ".", "v">>)>>,
        <<(<<"-", "c">>), (<<"k">>), (<<"-", "q">>), (<<"7">>), (<<"-", "c">>), (<<"j">>)>>,
        <<(<<"-", "q">>), (<<"k">>)>>}}
    \cup
    {<<Prog, NameB, NameXR>> \o t : t \in {<<>>, <<(<<"-", "r">>)>>}}
    \cup
    {<<Prog, NameB, NameY>> \o t : t \in {<<>>, <<(<<"-", "c">>), (<<"k">>)>>}}

DefaultNames == {NameA, NameB}

\* the templates a host sets
Templates == {"custom"}

\* the shell's completion environment: COMP_LINE and COMP_POINT
Env(line, point) == [line |-> line, point |-> point]
CompEnvs ==
    {Env(<<"p">>, <<>>),
     Env(<<"p", " ", "b", " ", "x">>, <<>>),
     Env(<<"p", " ", "b", " ", "x">>, <<"4">>),
     Env(<<"p", " ", "b", " ", "x">>, <<"0">>),
     Env(<<"p", " ", "b", " ", "x", " ", "-">>, <<>>),
     Env(<<"p", " ", "a", " ", "-">>, <<"k">>),
     Env(<<"p", " ", "c">>, <<>>)}

\* the store a host starts from: zero values, and two fields set by the host
InitFields ==
    [a \in Addrs |->
        IF a = <<"leafA", 2>> THEN 5
        ELSE IF a = <<"info", 3>> THEN 3
        ELSE ZeroOf(FieldOf(a))]

(***************************************************************************)
(* The dispatch engine                                                       *)
(***************************************************************************)

Init ==
    /\ subCommands = <<>>
    /\ firstAdded = <<>>
    /\ defaultCommand = <<>>
    /\ template = "default"
    /\ autoComplete = TRUE
    /\ flagSet = {}
    /\ fields = InitFields
    /\ lastCommandsName = <<>>
    /\ helpW = <<>>
    /\ errW = <<>>
    /\ ran = <<>>
    /\ parseCalls = <<>>
    /\ panicked = FALSE
    /\ call = [op |-> "New", name |-> <<>>, cmd |-> Nil, args |-> <<>>, line |-> <<>>,
               point |-> <<>>, preSub |-> <<>>, preFs |-> {}, preFields |-> InitFields]
    /\ res = Res(Nil, NoErr, FALSE)
    /\ runs = 0
    /\ commandSets = <<>>

\* cli.RootCommand().AddCommand(name, cmd); commands are registered before Run
AddCommand(name, cmd) ==
    /\ ~panicked
    /\ runs = 0
    /\ LET r == RootAddCommand(subCommands, name, cmd)
       IN  /\ subCommands' = r.sub
           /\ res' = Res(cmd, NoErr, r.ret)
    /\ firstAdded' = IF name \in DOMAIN firstAdded THEN firstAdded
                     ELSE (name :> cmd) @@ firstAdded
    /\ call' = Call("AddCommand", name, cmd, <<>>, <<>>, <<>>)
    /\ helpW' = <<>> /\ errW' = <<>> /\ ran' = <<>> /\ parseCalls' = <<>>
    /\ UNCHANGED <<commandSets, defaultCommand, template, autoComplete, flagSet, fields,
                   lastCommandsName, panicked, runs>>

\* CLI.SetDefault(command)
SetDefault(name) ==
    /\ ~panicked
    /\ runs = 0
    /\ defaultCommand' = name
    /\ call' = Call("SetDefault", name, Nil, <<>>, <<>>, <<>>)
    /\ res' = Res(Nil, NoErr, FALSE)
    /\ helpW' = <<>> /\ errW' = <<>> /\ ran' = <<>> /\ parseCalls' = <<>>
    /\ UNCHANGED <<commandSets, subCommands, firstAdded, template, autoComplete, flagSet, fields,
                   lastCommandsName, panicked, runs>>

\* CLI.SetTemplate(template)
SetTemplate(t) ==
    /\ ~panicked
    /\ runs = 0
    /\ template' = t
    /\ call' = Call("SetTemplate", <<>>, Nil, <<>>, <<>>, <<>>)
    /\ res' = Res(Nil, NoErr, FALSE)
    /\ helpW' = <<>> /\ errW' = <<>> /\ ran' = <<>> /\ parseCalls' = <<>>
    /\ UNCHANGED <<commandSets, subCommands, firstAdded, defaultCommand, autoComplete, flagSet, fields,
                   lastCommandsName, panicked, runs>>

\* the host's assignment to the exported field CLI.AutoComplete
SetAutoComplete(v) ==
    /\ ~panicked
    /\ runs = 0
    /\ autoComplete' = v
    /\ call' = Call("SetAutoComplete", <<>>, Nil, <<>>, <<>>, <<>>)
    /\ res' = Res(Nil, NoErr, FALSE)
    /\ helpW' = <<>> /\ errW' = <<>> /\ ran' = <<>> /\ parseCalls' = <<>>
    /\ UNCHANGED <<commandSets, subCommands, firstAdded, defaultCommand, template, flagSet, fields,
                   lastCommandsName, panicked, runs>>

\* the state the outcome o of CLI.Run is
RunEnds(o) ==
    /\ flagSet' = o.fs
    /\ fields' = o.fields
    /\ lastCommandsName' = o.last
    /\ helpW' = o.helpW
    /\ errW' = o.errW
    /\ ran' = o.ran
    /\ panicked' = o.panic
    /\ res' = Res(o.c, o.err, FALSE)

\* CLI.Run from the resolver's result r on: the map iteration left any of the
\* values it can leave in cli.lastCommandsName
RunFrom(r, args, line, point) ==
    \E last \in LastNames(r.scan) :
        RunEnds(RunFinish(r, last, subCommands, defaultCommand, template,
                          args, line, point))

\* a Run that completes whatever the AutoComplete field says
RunIgnoresAutoComplete(args, line, point) ==
    /\ ~panicked
    /\ runs < MaxRuns
    /\ runs' = runs + 1
    /\ call' = Call("Run", <<>>, Nil, args, line, point)
    /\ parseCalls' = <<>>
    /\ RunFrom(RunResolve(subCommands, defaultCommand, flagSet, fields, args, line, point),
               args, line, point)
    /\ UNCHANGED <<commandSets, subCommands, firstAdded, defaultCommand, template, autoComplete>>

\* CLI.Run(ctx, args) under the environment COMP_LINE = line, COMP_POINT = point
Run(args, line, point) ==
    /\ ~panicked
    /\ runs < MaxRuns
    /\ runs' = runs + 1
    /\ call' = Call("Run", <<>>, Nil, args, line, point)
    /\ parseCalls' = <<>>
    /\ IF IsCompleteStarted(line) /\ ~autoComplete
       THEN /\ helpW' = <<>> /\ errW' = <<>> /\ ran' = <<>>
            /\ res' = Res(Nil, NoErr, FALSE)
            /\ UNCHANGED <<flagSet, fields, lastCommandsName, panicked>>
       ELSE RunFrom(RunResolve(subCommands, defaultCommand, flagSet, fields,
                               args, line, point),
                    args, line, point)
    /\ UNCHANGED <<commandSets, subCommands, firstAdded, defaultCommand, template, autoComplete>>

Next ==
    \/ \E reg \in Registrations : AddCommand(reg[1], reg[2])
    \/ \E n \in DefaultNames : SetDefault(n)
    \/ \E t \in Templates : SetTemplate(t)
    \/ \E v \in BOOLEAN : SetAutoComplete(v)
    \/ \E args \in ArgVs : Run(args, <<>>, <<>>)
    \/ \E env \in CompEnvs : Run(<<Prog, NameA>>, env.line, env.point)

Spec == Init /\ [][Next]_vars

(***************************************************************************)
(* Properties of the dispatch engine.  They speak of the last call: call     *)
(* holds its inputs and the state it started from, res what it resolved.     *)
(***************************************************************************)

\* the last call was CLI.Run outside shell completion
RanNormally == call.op = "Run" /\ ~IsCompleteStarted(call.line)

\* reading tokens as a path of names through the mapping kids: the commands
\* named, in order, up to and including the first leaf, and the tokens left
RECURSIVE Walk(_, _, _)
Walk(kids, toks, seen) ==
    IF Len(toks) = 0 \/ toks[1] \notin KidNames(kids)
    THEN [seen |-> seen, rest |-> toks]
    ELSE LET c == KidOf(kids, toks[1])
         IN  IF Cmd(c).sub
             THEN Walk(Cmd(c).kids, Tail(toks), Append(seen, c))
             ELSE [seen |-> Append(seen, c), rest |-> Tail(toks)]

\* the path spelled by the tokens after the program name in the last call
Path == Walk(RootKids(call.preSub), Tail(call.args), <<>>)
LastOfPath == Path.seen[Len(Path.seen)]

\* the tokens spell an exact path from the root to a leaf
SpellsLeaf == Len(Path.seen) > 0 /\ ~Cmd(LastOfPath).sub

\* the tokens end on the name of a command with sub-commands
EndsOnInternal == Len(Path.seen) > 0 /\ Cmd(LastOfPath).sub /\ Len(Path.rest) = 0

\* the flags the structs of the path's commands declare, each struct by itself
OwnFlags(c) ==
    DefineFlagSet([fs |-> {}, fields |-> call.preFields, err |-> NoErr, panic |-> FALSE],
                  c, <<>>).fs
PathFlags == call.preFs \cup UNION {OwnFlags(Path.seen[i]) : i \in 1..Len(Path.seen)}

\* the flag parser accepts the tokens that follow the leaf's name
RestAccepted == FlagParse(PathFlags, call.preFields, Path.rest).err = NoErr

\* binding the commands of the path one after the other to the flag set the
\* call started from
RECURSIVE BindAll(_, _)
BindAll(b, cs) ==
    IF Len(cs) = 0 \/ b.err # NoErr \/ b.panic THEN b
    ELSE BindAll(GetFlagSet(b, cs[1]), Tail(cs))

PathBinding ==
    BindAll([fs |-> call.preFs, fields |-> call.preFields, err |-> NoErr, panic |-> FALSE],
            Path.seen)

\* every command of the path binds without error
BindsClean == PathBinding.err = NoErr /\ ~PathBinding.panic

\* the errors flag.FlagSet.Parse returns
ParseErrMsgs ==
    {"flag: help requested", "flag provided but not defined", "invalid boolean value",
     "invalid value", "flag needs an argument", "bad flag syntax"}

\* C1: outside shell completion, when the tokens after the program name spell
\* an exact path of names from the root to a leaf and the flag parser accepts
\* the tokens after the leaf's name, Run of that leaf is invoked exactly once
\* and no other command's Run, provided every command of the path binds; when
\* one of them returns a binding error that error is the result and no Run is
\* invoked, and when one of them registers a flag name a second time the flag
\* package panics and no Run is invoked.
C1_LeafRunsOnce ==
    (RanNormally /\ SpellsLeaf /\ RestAccepted)
        => IF PathBinding.panic THEN panicked /\ ran = <<>>
           ELSE IF PathBinding.err # NoErr
                THEN ran = <<>> /\ res.err = PathBinding.err /\ ~panicked
                ELSE /\ ran = <<LastOfPath>>
                     /\ res.c = LastOfPath
                     /\ res.err = NoErr
                     /\ ~panicked

\* C1 as stated: whatever the binding of the path's commands does
C1_Original ==
    (RanNormally /\ SpellsLeaf /\ RestAccepted) => ran = <<LastOfPath>>

C1_Witness ==
    /\ RanNormally /\ SpellsLeaf /\ BindsClean /\ RestAccepted
    /\ Len(Path.seen) = 2
    /\ Len(Path.rest) > 0
    /\ ran = <<"info">>

\* C2: outside shell completion, when the tokens end on the name of a command
\* that has sub-commands, no Run is invoked, and resolution fails with
\* "missing sub command" at that command provided every command of the path
\* binds; when one of them returns a binding error that error is the result,
\* and when one of them registers a flag name a second time the flag package
\* panics.
C2_MissingSubCommand ==
    (RanNormally /\ EndsOnInternal)
        => /\ ran = <<>>
           /\ IF PathBinding.panic THEN panicked
              ELSE IF PathBinding.err # NoErr
                   THEN res.err = PathBinding.err /\ ~panicked
                   ELSE /\ res.err = Err("missing sub command")
                        /\ res.c = LastOfPath
                        /\ ~panicked

\* C2 as stated: "missing sub command" whatever the binding does
C2_Original ==
    (RanNormally /\ EndsOnInternal)
        => (res.err = Err("missing sub command") /\ ran = <<>>)

C2_Witness ==
    /\ RanNormally /\ EndsOnInternal /\ BindsClean
    /\ res.c = "queue"
    /\ res.err = Err("missing sub command")
    /\ Len(errW) = 2

\* the first command token of the last call is no key of the root's mapping
UnknownFirst ==
    /\ RanNormally
    /\ Len(call.args) >= 2
    /\ call.args[2] \notin DOMAIN call.preSub

C4_Original ==
    (RanNormally /\ SpellsLeaf /\ BindsClean /\ RestAccepted /\ Cmd(LastOfPath).parse)
        => /\ parseCalls = <<LastOfPath>>
           /\ Cmd(LastOfPath).parseErr => ran = <<>>

\* C5: outside shell completion, when the flag parser rejects the tokens that
\* follow a matched leaf, no Run is invoked, and the error writer receives the
\* error line followed by the help text of that leaf; the help writer nothing.
C5_ParseFailure ==
    (RanNormally /\ SpellsLeaf /\ BindsClean /\ ~RestAccepted)
        => /\ ran = <<>>
           /\ res.err = FlagParse(PathFlags, call.preFields, Path.rest).err
           /\ res.err.msg \in ParseErrMsgs
           /\ errW = <<ErrLine(res.err), HelpText(LastOfPath, "default", TRUE)>>
           /\ helpW = <<>>
           /\ ~panicked

C5_Witness ==
    /\ RanNormally /\ SpellsLeaf /\ BindsClean /\ ~RestAccepted
    /\ LastOfPath = "info"
    /\ res.err = ErrFlag("invalid value", <<"q">>)
    /\ errW[2].cmd = "info"

\* what the last call left behind
Observed ==
    Outcome(res.c, res.err, flagSet, fields, lastCommandsName, helpW, errW, ran, panicked)

\* the outcomes CLI.Run can have on the arguments args from the state the
\* last call started from
OutcomesOn(args) ==
    LET r == RunResolve(call.preSub, defaultCommand, call.preFs, call.preFields,
                        args, call.line, call.point)
    IN  {RunFinish(r, last, call.preSub, defaultCommand, template, args,
                   call.line, call.point) : last \in LastNames(r.scan)}

\* the command registered under the default name binds without error to the
\* flag set the call started from
DefaultBinds ==
    LET b == GetFlagSet([fs |-> call.preFs, fields |-> call.preFields, err |-> NoErr,
                         panic |-> FALSE], call.preSub[defaultCommand])
    IN  b.err = NoErr /\ ~b.panic

\* C6: outside shell completion, Run on an argument vector of length 1 ends
\* as Run on that vector followed by the default command's name ends; when
\* that name is registered for a leaf that binds, the leaf's Run is invoked.
C6_DefaultCommand ==
    (RanNormally /\ Len(call.args) = 1)
        => /\ Observed \in OutcomesOn(<<call.args[1], defaultCommand>>)
           /\ (/\ defaultCommand \in DOMAIN call.preSub
               /\ ~Cmd(call.preSub[defaultCommand]).sub
               /\ DefaultBinds)
                 => ran = <<call.preSub[defaultCommand]>>

C6_Witness ==
    /\ RanNormally
    /\ Len(call.args) = 1
    /\ defaultCommand = NameA
    /\ ran = <<"leafA">>

\* C7: a name registered with the root keeps the command of the first
\* AddCommand call made with it: a call with a name already present returns
\* false and leaves the mapping as it was, a call with a new name returns
\* true and adds exactly that entry.
C7_FirstRegistrationWins ==
    /\ subCommands = firstAdded
    /\ call.op = "AddCommand" =>
         IF call.name \in DOMAIN call.preSub
         THEN res.ret = FALSE /\ subCommands = call.preSub
         ELSE /\ res.ret = TRUE
              /\ DOMAIN subCommands = DOMAIN call.preSub \cup {call.name}
              /\ subCommands[call.name] = call.cmd
              /\ \A n \in DOMAIN call.preSub : subCommands[n] = call.preSub[n]

C7_Witness ==
    /\ call.op = "AddCommand"
    /\ call.name \in DOMAIN call.preSub
    /\ call.cmd # call.preSub[call.name]
    /\ res.ret = FALSE
    /\ subCommands[call.name] = call.preSub[call.name]

(***************************************************************************)
(* The binder and the flag parser by themselves, as flagger_test.go drives   *)
(* them: a struct is bound to the CLI's flag set (CLI.getFlagSet), the flag  *)
(* set is replaced by a fresh one (CLI.SetFlagSet), arguments are parsed.    *)
(***************************************************************************)

\* a value a host may have put in a field before binding
SampleOf(f) ==
    CASE f.custom # "" -> <<(<<"o">>)>>
      [] f.custom = "" /\ f.kind = "bool" -> TRUE
      [] f.custom = "" /\ f.kind = "string" -> <<"w">>
      [] f.custom = "" /\ f.kind = "float64" -> [m |-> 25, e |-> 1]
      [] OTHER -> 5

ZeroFields == [a \in Addrs |-> ZeroOf(FieldOf(a))]
SampleFields == [a \in Addrs |-> SampleOf(FieldOf(a))]

\* the structs handed to the binder
Bindable == BindCmds \cup {"leafBad", "leafP"}

\* the occurrences of one custom-value flag on a generated command line
MaxRepeat == 2

\* the calls of flagSet.Parse one behaviour of the binder alone makes
MaxParses == 1

\* a well-formed value token for a flag, in two variants, and a malformed one
GoodToken(f, v) ==
    CASE f.custom # "" -> IF v = 1 THEN <<"a">> ELSE <<"b">>
      [] f.custom = "" /\ f.kind = "string" -> IF v = 1 THEN <<"w", "h">> ELSE <<>>
      [] f.custom = "" /\ f.kind = "int" -> IF v = 1 THEN <<"4", "2">> ELSE <<"-", "7">>
      [] f.custom = "" /\ f.kind = "int64" -> IF v = 1 THEN <<"1", "0">> ELSE <<"+", "3">>
      [] f.custom = "" /\ f.kind = "uint" -> IF v = 1 THEN <<"7">> ELSE <<"0">>
      [] f.custom = "" /\ f.kind = "uint64" -> IF v = 1 THEN <<"2", "4">> ELSE <<"1">>
      [] f.custom = "" /\ f.kind = "float64" ->
           IF v = 1 THEN <<"1", ".", "5", "5">> ELSE <<"1", ".", "5", "0">>
      [] f.custom = "" /\ f.kind = "duration" -> IF v = 1 THEN <<"1", "5", "m">> ELSE <<"2", "s">>
      [] f.custom = "" /\ f.kind = "bool" -> IF v = 1 THEN <<"t">> ELSE <<"f", "a", "l", "s", "e">>

BadToken(f) ==
    IF f.custom = "" /\ f.kind \in {"uint", "uint64"} THEN <<"-", "7">> ELSE <<"k", "o">>

\* the tokens naming flag f once: -name value, or -name / -name=value for a bool
Segment(f, tok, v) ==
    IF IsBoolFlag(f)
    THEN IF v = 1 THEN <<(<<"-">> \o f.name)>>
         ELSE <<(<<"-">> \o f.name \o <<"=">> \o tok)>>
    ELSE IF v = 1 THEN <<(<<"-">> \o f.name), tok>>
         ELSE <<(<<"-", "-">> \o f.name \o <<"=">> \o tok)>>

\* flag f named with a good value; a custom value up to MaxRepeat times
RECURSIVE Repeated(_, _)
Repeated(f, n) ==
    IF n = 0 THEN <<>>
    ELSE Repeated(f, n - 1) \o Segment(f, GoodToken(f, 1 + (n % 2)), 1)

GoodSegments(f, v) ==
    IF f.custom # "" THEN Repeated(f, IF v = 1 THEN MaxRepeat ELSE 1)
    ELSE Segment(f, GoodToken(f, v), v)

\* the concatenation of the segments seg[i] of the flags fl[i], i in I
RECURSIVE Concat(_)
Concat(ss) == IF Len(ss) = 0 THEN <<>> ELSE ss[1] \o Concat(Tail(ss))

\* argument vectors over the flags registered in fs: all of them, the first j
\* and the last j of them in name order, each in both variants; one flag with
\* a malformed value after the others; an unknown flag; a non-flag argument
ParseArgVs(fs) ==
    LET names == Sorted(FsNames(fs))
        n == Len(names)
        fl == [i \in 1..n |-> FsLookup(fs, names[i])]
        good(v, lo, hi) == Concat([i \in 1..(hi - lo + 1) |-> GoodSegments(fl[lo + i - 1], v)])
    IN  {good(v, 1, j) : v \in {1, 2}, j \in 0..n}
        \cup {good(v, j, n) : v \in {1, 2}, j \in 1..n}
        \cup {good(1, 1, j - 1)
                \o Segment(fl[j], BadToken(fl[j]), IF IsBoolFlag(fl[j]) THEN 2 ELSE 1)
                \o good(2, j + 1, n)
                : j \in 1..n}
        \cup (IF n = 0 THEN {} ELSE {good(2, n, n) \o good(1, 1, n)})
        \cup {<<(<<"-", "u", "u">>)>>, <<(<<"z">>)>> \o good(1, 1, n)}

BindInit ==
    /\ subCommands = <<>>
    /\ firstAdded = <<>>
    /\ defaultCommand = <<>>
    /\ template = "default"
    /\ autoComplete = TRUE
    /\ flagSet = {}
    /\ fields \in {ZeroFields, SampleFields}
    /\ lastCommandsName = <<>>
    /\ helpW = <<>>
    /\ errW = <<>>
    /\ ran = <<>>
    /\ parseCalls = <<>>
    /\ panicked = FALSE
    /\ call = [op |-> "New", name |-> <<>>, cmd |-> Nil, args |-> <<>>, line |-> <<>>,
               point |-> <<>>, preSub |-> <<>>, preFs |-> {}, preFields |-> fields]
    /\ res = Res(Nil, NoErr, FALSE)
    /\ runs = 0
    /\ commandSets = <<>>

\* the state the binding b of command c is
Bound(c, b) ==
    /\ flagSet' = b.fs
    /\ fields' = b.fields
    /\ panicked' = b.panic
    /\ res' = Res(c, b.err, FALSE)

\* cli.getFlagSet(c): the struct of c is bound to the CLI's flag set
Bind(c) ==
    /\ ~panicked
    /\ runs = 0
    /\ Bound(c, GetFlagSet([fs |-> flagSet, fields |-> fields, err |-> NoErr,
                            panic |-> FALSE], c))
    /\ call' = Call("Bind", <<>>, c, <<>>, <<>>, <<>>)
    /\ UNCHANGED <<commandSets, subCommands, firstAdded, defaultCommand, template, autoComplete,
                   lastCommandsName, helpW, errW, ran, parseCalls, runs>>

\* CLI.SetFlagSet(&flag.FlagSet{}): a fresh flag set
SetFlagSet ==
    /\ ~panicked
    /\ runs = 0
    /\ flagSet # {}
    /\ flagSet' = {}
    /\ call' = Call("SetFlagSet", <<>>, Nil, <<>>, <<>>, <<>>)
    /\ res' = Res(Nil, NoErr, FALSE)
    /\ UNCHANGED <<commandSets, subCommands, firstAdded, defaultCommand, template, autoComplete, fields,
                   lastCommandsName, helpW, errW, ran, parseCalls, panicked, runs>>

\* the state the parse r is
ParsedTo(r) ==
    /\ fields' = r.fields
    /\ res' = Res(Nil, r.err, FALSE)

\* cli.flagSet.Parse(args)
Parse(args) ==
    /\ ~panicked
    /\ runs < MaxParses
    /\ runs' = runs + 1
    /\ ParsedTo(FlagParse(flagSet, fields, args))
    /\ call' = Call("Parse", <<>>, Nil, args, <<>>, <<>>)
    /\ UNCHANGED <<commandSets, subCommands, firstAdded, defaultCommand, template, autoComplete, flagSet,
                   lastCommandsName, helpW, errW, ran, parseCalls, panicked>>

BindNext ==
    \/ \E c \in Bindable : Bind(c)
    \/ SetFlagSet
    \/ \E args \in ParseArgVs(flagSet) : Parse(args)

BindSpec == BindInit /\ [][BindNext]_vars

(***************************************************************************)
(* Properties of the binder and the flag parser                              *)
(***************************************************************************)

\* the fields of the struct of type t at path that declare a flag, with the
\* flag's name: a tagged field that is no plain struct, the declaring fields
\* of a tagged plain struct below the dotted prefix of its name, and those of
\* an untagged struct; nothing at or below a field tagged "-"
RECURSIVE Declared(_, _, _)
Declared(t, path, prefix) ==
    UNION {LET f == StructDef(t)[i]
               addr == Append(path, i)
               name == IF prefix = <<>> THEN TagName(f.tag)
                       ELSE prefix \o <<".">> \o TagName(f.tag)
           IN  IF f.tag = <<>>
               THEN IF f.kind = "struct" THEN Declared(f.elem, addr, <<>>) ELSE {}
               ELSE IF TagName(f.tag) = <<"-">> THEN {}
               ELSE IF f.kind = "struct" /\ f.custom = ""
                    THEN Declared(f.elem, addr, name)
                    ELSE {[name |-> name, addr |-> addr]}
           : i \in 1..Len(StructDef(t))}

DeclaredBy(c) == Declared(Cmd(c).typ, <<c>>, <<>>)

\* the tagged fields the binder's loop comes to when no field stops it, each
\* with the flag name it would get and whether it is out of reflect's reach
\* (unexported, or inside an unexported embedded struct); the loop does not
\* enter a struct tagged "-", a custom value, or a struct out of reach
RECURSIVE Visited(_, _, _, _)
Visited(t, path, prefix, ro) ==
    UNION {LET f == StructDef(t)[i]
               addr == Append(path, i)
               name == IF prefix = <<>> THEN TagName(f.tag)
                       ELSE prefix \o <<".">> \o TagName(f.tag)
           IN  IF f.tag = <<>>
               THEN IF f.kind = "struct"
                    THEN Visited(f.elem, addr, <<>>, ro \/ ~f.exp)
                    ELSE {}
               ELSE {[addr |-> addr, name |-> name, hidden |-> ro \/ ~f.exp, field |-> f]}
                    \cup (IF /\ ~(ro \/ ~f.exp)
                             /\ TagName(f.tag) # <<"-">>
                             /\ f.custom = ""
                             /\ f.kind = "struct"
                          THEN Visited(f.elem, addr, name, ro)
                          ELSE {})
           : i \in 1..Len(StructDef(t))}

VisitedBy(c) == Visited(Cmd(c).typ, <<c>>, <<>>, FALSE)

\* every tagged field of the struct of type t, at any depth
RECURSIVE AllTagged(_, _, _)
AllTagged(t, path, ro) ==
    UNION {LET f == StructDef(t)[i]
               addr == Append(path, i)
           IN  (IF f.tag # <<>>
                THEN {[addr |-> addr, hidden |-> ro \/ ~f.exp, field |-> f]}
                ELSE {})
               \cup (IF f.kind = "struct" /\ f.elem # ""
                     THEN AllTagged(f.elem, addr, ro \/ ~f.exp)
                     ELSE {})
           : i \in 1..Len(StructDef(t))}

AllTaggedIn(c) == AllTagged(Cmd(c).typ, <<c>>, FALSE)

UnsupportedType == "field with flag tag value is of unsupported type"

\* the tagged fields of c the binder comes to and cannot reach
HiddenIn(c) == {v \in VisitedBy(c) : v.hidden}

\* the tagged fields of c the binder comes to, can reach, and has no flag for
UnsupportedIn(c) ==
    {v \in VisitedBy(c) : /\ ~v.hidden
                          /\ TagName(v.field.tag) # <<"-">>
                          /\ v.field.custom = ""
                          /\ v.field.kind \notin PrimitiveKinds \cup {"struct"}}

\* a flag name of c is registered before the binding, or declared twice by c
NameClash(c, fs) ==
    \/ \E d \in DeclaredBy(c) : d.name \in FsNames(fs)
    \/ \E d, e \in DeclaredBy(c) : d.name = e.name /\ d # e

\* every tagged field the binder comes to in c is exported, every declaring
\* field is of a supported type, and no two of them declare the same name
WellFormed(c) ==
    /\ HiddenIn(c) = {}
    /\ \A d \in DeclaredBy(c) :
         /\ FieldAt(Cmd(c).typ, Tail(d.addr)).exp
         /\ \/ FieldAt(Cmd(c).typ, Tail(d.addr)).custom # ""
            \/ FieldAt(Cmd(c).typ, Tail(d.addr)).kind \in PrimitiveKinds
    /\ \A d, e \in DeclaredBy(c) : d.name = e.name => d = e

\* the argument vectors that name every flag of fs with a well-formed value,
\* a custom value up to MaxRepeat times (a custom value whose Set always
\* fails has no well-formed value)
FullArgVs(fs) ==
    LET names == Sorted(FsNames(fs))
        n == Len(names)
        fl == [i \in 1..n |-> FsLookup(fs, names[i])]
        all(v) == Concat([i \in 1..n |-> GoodSegments(fl[i], v)])
    IN  IF n = 0 \/ \E f \in fs : f.custom = "appendErr" THEN {}
        ELSE {all(1), all(2), GoodSegments(fl[n], 2) \o all(1)}

\* the value tokens given to flag f on the command line args, in order
RECURSIVE ValuesOf(_, _)
ValuesOf(args, f) ==
    IF Len(args) = 0 THEN <<>>
    ELSE IF args[1] = <<"-">> \o f.name
         THEN IF IsBoolFlag(f) THEN <<(<<"t">>)>> \o ValuesOf(Tail(args), f)
              ELSE <<args[2]>> \o ValuesOf(Tail(Tail(args)), f)
         ELSE IF HasPrefix(args[1], <<"-", "-">> \o f.name \o <<"=">>)
              THEN <<From(args[1], Len(f.name) + 4)>> \o ValuesOf(Tail(args), f)
              ELSE IF HasPrefix(args[1], <<"-">> \o f.name \o <<"=">>)
                   THEN <<From(args[1], Len(f.name) + 3)>> \o ValuesOf(Tail(args), f)
                   ELSE ValuesOf(Tail(args), f)

\* the value a well-formed token stands for
ValueOf(kind, tok) ==
    CASE kind = "string" -> tok
      [] kind = "bool" -> tok = <<"t">>
      [] kind = "int" -> IF tok = <<"4", "2">> THEN 42 ELSE 0 - 7
      [] kind = "int64" -> IF tok = <<"1", "0">> THEN 10 ELSE 3
      [] kind = "uint" -> IF tok = <<"7">> THEN 7 ELSE 0
      [] kind = "uint64" -> IF tok = <<"2", "4">> THEN 24 ELSE 1
      [] kind = "float64" -> IF tok = <<"1", ".", "5", "5">> THEN [m |-> 155, e |-> 2]
                             ELSE [m |-> 15, e |-> 1]
      [] kind = "duration" -> IF tok = <<"1", "5", "m">> THEN 900 ELSE 2

\* C8: binding a struct whose tagged fields are exported and whose declaring
\* fields are of supported types and differently named, to a flag set holding none of their names
\* registers exactly one flag per declaring field, under its name and on its
\* field; after parsing an argument vector that names every registered flag
\* with a well-formed value, the field of each primitive flag holds the value
\* of its last occurrence, and the field of each custom-value flag got every
\* value of its occurrences appended in order.
C8_RoundTrip ==
    /\ (/\ call.op = "Bind"
        /\ WellFormed(call.cmd)
        /\ {d.name : d \in DeclaredBy(call.cmd)} \cap FsNames(call.preFs) = {})
          => /\ res.err = NoErr
             /\ ~panicked
             /\ call.preFs \subseteq flagSet
             /\ {[name |-> f.name, addr |-> f.addr] : f \in flagSet \ call.preFs}
                   = DeclaredBy(call.cmd)
             /\ Cardinality(flagSet) =
                   Cardinality(call.preFs) + Cardinality(DeclaredBy(call.cmd))
    /\ (call.op = "Parse" /\ call.args \in FullArgVs(flagSet))
          => /\ res.err = NoErr
             /\ \A f \in flagSet :
                  LET vs == ValuesOf(call.args, f)
                  IN  /\ Len(vs) > 0
                      /\ IF f.custom # ""
                         THEN fields[f.addr] = call.preFields[f.addr] \o vs
                         ELSE fields[f.addr] = ValueOf(f.kind, vs[Len(vs)])

C8_Witness ==
    /\ call.op = "Parse"
    /\ call.args \in FullArgVs(flagSet)
    /\ Cardinality(flagSet) = 10
    /\ fields[<<"tf", 10>>] = <<(<<"b">>), (<<"a">>)>>
    /\ fields[<<"tf", 3>>] = 42
    /\ fields[<<"tf", 7>>] = [m |-> 155, e |-> 2]

\* flag name is written on the command line args
NamedIn(args, name) ==
    \E i \in 1..Len(args) :
        \/ args[i] \in {<<"-">> \o name, <<"-", "-">> \o name}
        \/ HasPrefix(args[i], <<"-">> \o name \o <<"=">>)
        \/ HasPrefix(args[i], <<"-", "-">> \o name \o <<"=">>)

\* the fields a command line can reach: those of the flags it names
Reached(args) == {f.addr : f \in {g \in flagSet : NamedIn(args, g.name)}}

\* C9: binding changes no field, and parsing changes no field but those of
\* the flags named on the command line: a field whose flag is not named, and
\* a field with no flag, stays at the value it had before binding.
C9_Frame ==
    /\ call.op = "Bind" => fields = call.preFields
    /\ call.op = "Parse" =>
         \A a \in Addrs \ Reached(call.args) : fields[a] = call.preFields[a]

C9_Witness ==
    /\ call.op = "Parse"
    /\ res.err = NoErr
    /\ flagSet # {}
    /\ \E f \in flagSet : /\ NamedIn(call.args, f.name)
                          /\ fields[f.addr] # call.preFields[f.addr]
    /\ \E f \in flagSet : /\ ~NamedIn(call.args, f.name)
                          /\ f.custom = ""
                          /\ fields[f.addr] = SampleOf(FieldOf(f.addr))
                          /\ fields[f.addr] # ZeroOf(FieldOf(f.addr))

\* the field at addr, or a struct field it lies in, is tagged "-"
Excluded(addr) ==
    \E k \in 2..Len(addr) : TagName(FieldOf(SubSeq(addr, 1, k)).tag) = <<"-">>

\* C10: no flag of the flag set belongs to a field tagged "-" or lying in a
\* struct tagged "-", or to a field without tag; such a field, when exported,
\* makes no binding fail, whatever its type, and neither binding nor parsing
\* changes it.
C10_Sentinel ==
    /\ \A f \in flagSet :
         /\ ~Excluded(f.addr)
         /\ FieldOf(f.addr).tag # <<>>
         /\ TagName(FieldOf(f.addr).tag) # <<"-">>
    /\ (call.op = "Bind" /\ res.err # NoErr)
          => HiddenIn(call.cmd) # {} \/ UnsupportedIn(call.cmd) # {}
    /\ call.op \in {"Bind", "Parse"}
          => \A a \in Addrs : (Excluded(a) \/ FieldOf(a).tag = <<>>)
                                 => fields[a] = call.preFields[a]

C10_Witness ==
    /\ call.op = "Bind"
    /\ call.cmd = "sentinel"
    /\ call.preFs = {}
    /\ res.err = NoErr
    /\ ~panicked
    /\ FsNames(flagSet) = {<<"k">>, <<"g", ".", "m">>}

\* C11: binding a struct in which the binder comes to a tagged unexported
\* field never reports success and registers no flag for that field: it
\* returns a binding error ("field is unexported", or the unsupported-type
\* error of another field), unless a flag name of the struct is already
\* registered, when the flag package panics instead.  With no unsupported
\* field in the struct the error is "field is unexported".
C11_Unexported ==
    (call.op = "Bind" /\ HiddenIn(call.cmd) # {})
       => /\ res.err # NoErr \/ panicked
          /\ \A f \in flagSet \ call.preFs :
                \A v \in HiddenIn(call.cmd) : f.addr # v.addr
          /\ panicked => NameClash(call.cmd, call.preFs)
          /\ ~panicked => res.err.msg \in {"field is unexported", UnsupportedType}
          /\ (~panicked /\ UnsupportedIn(call.cmd) = {})
                => res.err = Err("field is unexported")

\* C11 as stated: a struct with a tagged unexported field anywhere in
\* it, bound to an empty flag set, returns a binding error
C11_Original ==
    (/\ call.op = "Bind"
     /\ call.preFs = {}
     /\ \E v \in AllTaggedIn(call.cmd) : v.hidden)
       => res.err # NoErr

C11_Witness ==
    /\ call.op = "Bind"
    /\ call.cmd = "hidden"
    /\ call.preFs = {}
    /\ res.err = Err("field is unexported")
    /\ ~panicked
    /\ FsNames(flagSet) = {<<"k">>}

ConversionErrors == {"invalid value", "invalid boolean value"}

\* token tok names the flag name
Names(tok, name) ==
    \/ tok \in {<<"-">> \o name, <<"-", "-">> \o name}
    \/ HasPrefix(tok, <<"-">> \o name \o <<"=">>)
    \/ HasPrefix(tok, <<"-", "-">> \o name \o <<"=">>)

\* the tokens of args before the first one that names the flag name
Before(args, name) ==
    LET i == CHOOSE k \in 1..Len(args) :
                 Names(args[k], name) /\ \A j \in 1..(k - 1) : ~Names(args[j], name)
    IN  SubSeq(args, 1, i - 1)

\* no value of flag f's type is written tok
Malformed(f, tok) ==
    \/ f.custom = "appendErr"
    \/ /\ f.custom = ""
       /\ f.kind \in PrimitiveKinds \ {"string"}
       /\ tok = BadToken(f)

ClashOnPath ==
    \E i \in 1..Len(Path.seen) :
        /\ NameClash(Path.seen[i],
                     call.preFs \cup UNION {OwnFlags(Path.seen[j]) : j \in 1..(i - 1)})
        /\ \A j \in 1..i : /\ HiddenIn(Path.seen[j]) = {}
                           /\ UnsupportedIn(Path.seen[j]) = {}
                           /\ Cmd(Path.seen[j]).ptr

\* C14 as stated: when a command matched by Run declares a flag name that is
\* already registered, Run reports a binding error, renders help and
\* returns; the engine is not left by a panic.
C14_Original ==
    (RanNormally /\ ClashOnPath)
       => /\ ~panicked
          /\ res.err # NoErr
          /\ \E i \in 1..Len(helpW \o errW) : (helpW \o errW)[i].kind = "help"

\* the last call was a Run under the completion environment that went on to
\* resolve the line
Completing == call.op = "Run" /\ IsCompleteStarted(call.line) /\ autoComplete

\* the tokens the resolver worked on in the last call
RunToks == Tail(RunArgs(call.args, call.line, call.point, defaultCommand))
LastTok == RunToks[Len(RunToks)]

\* the path those tokens spell
RunPath == Walk(RootKids(call.preSub), RunToks, <<>>)

\* the node reached by taking every token of toks as the name of a command
\* with sub-commands, from the node with the mapping kids
RECURSIVE Descend(_, _, _)
Descend(kids, toks, seen) ==
    IF Len(toks) = 0 THEN [ok |-> TRUE, kids |-> kids, seen |-> seen]
    ELSE IF toks[1] \in KidNames(kids) /\ Cmd(KidOf(kids, toks[1])).sub
         THEN Descend(Cmd(KidOf(kids, toks[1])).kids, Tail(toks),
                      Append(seen, KidOf(kids, toks[1])))
         ELSE [ok |-> FALSE, kids |-> {}, seen |-> seen]

\* the node all tokens but the last lead to
Parent == Descend(RootKids(call.preSub), SubSeq(RunToks, 1, Len(RunToks) - 1), <<>>)

\* the commands cs bind one after the other to the flag set the call started from
BindClean(cs) ==
    LET b == BindAll([fs |-> call.preFs, fields |-> call.preFields, err |-> NoErr,
                      panic |-> FALSE], cs)
    IN  b.err = NoErr /\ ~b.panic

\* the texts of the candidate lines written to the help writer
CandidateTexts == {helpW[i].text : i \in {j \in 1..Len(helpW) : helpW[j].kind = "line"}}

\* C15 as stated: under the completion environment, when every token but the
\* last names a command with sub-commands (each binding to the flag set) and
\* the node so reached has children, the help writer receives exactly the
\* names of those children that have the last token as a prefix, one line
\* each, whether or not the last token is itself one of the names.
C15_Original ==
    (/\ Completing
     /\ Parent.ok
     /\ Parent.kids # {}
     /\ BindClean(Parent.seen))
       => /\ CandidateTexts = {n \in KidNames(Parent.kids) : HasPrefix(n, LastTok)}
          /\ Len(helpW) = Cardinality(CandidateTexts)
          /\ \A i \in 1..Len(helpW) : helpW[i].kind = "line"

\* C16: a call of Run under the completion environment invokes no command's
\* Run and writes nothing to the error writer, whatever the tree, the line
\* and the argument vector; with AutoComplete off it writes nothing at all.
C16_CompletionRunsNothing ==
    (call.op = "Run" /\ IsCompleteStarted(call.line))
       => /\ ran = <<>>
          /\ errW = <<>>
          /\ \A i \in 1..Len(helpW) : helpW[i].kind = "line"
          /\ ~autoComplete => helpW = <<>>

C16_Witness ==
    /\ Completing
    /\ ~panicked
    /\ res.c = "info"
    /\ res.err = NoErr
    /\ Len(RunPath.rest) > 0
    /\ Len(helpW) > 1
    /\ ran = <<>>

\* C17 as stated: under the completion environment, when the tokens spell a
\* path to a leaf, nested or registered at the root, followed by at least one
\* more token, and the commands of the path bind, the help writer receives
\* "-name" for exactly the registered flag names that have the last token,
\* its leading dashes stripped, as a prefix, one line each, and no command
\* name.
C17_Original ==
    (/\ Completing
     /\ Len(RunPath.seen) > 0
     /\ ~Cmd(RunPath.seen[Len(RunPath.seen)]).sub
     /\ Len(RunPath.rest) > 0
     /\ BindClean(RunPath.seen))
       => /\ CandidateTexts =
                {<<"-">> \o n : n \in {m \in FsNames(flagSet) :
                                          HasPrefix(m, TrimLeftDash(LastTok))}}
          /\ Len(helpW) = Cardinality(CandidateTexts)
          /\ \A i \in 1..Len(helpW) : helpW[i].kind = "line"

\* the help texts the last call rendered
HelpTexts ==
    {(helpW \o errW)[i] :
        i \in {j \in 1..Len(helpW \o errW) : (helpW \o errW)[j].kind = "help"}}

\* C18 as stated: every help text is rendered from the template the CLI was
\* given by SetTemplate.
C18_Original ==
    \A h \in HelpTexts : h.tmpl = template

\* the template's flagSet function cannot make the usage text of command c:
\* c is no pointer, or binding its struct to an empty flag set fails
IntrospectionFails(c) ==
    \/ ~Cmd(c).ptr
    \/ HiddenIn(c) # {}
    \/ UnsupportedIn(c) # {}
    \/ NameClash(c, {})

\* the commands the help text of command c shows: c and its sub-commands
Rendered(c) ==
    {c} \cup {k[2] : k \in (IF Cmd(c).sub THEN KidsOf(c, call.preSub) ELSE {})}

\* C19 as stated: when the flags of a command shown in a help text cannot be
\* introspected, an error line is written to the error writer and no help
\* text is left unfinished on either writer.
C19_Original ==
    \A h \in HelpTexts :
        (\E c \in Rendered(h.cmd) : IntrospectionFails(c))
           => /\ \E i \in 1..Len(errW) : errW[i].kind = "err"
              /\ h.done

\* C20: a call of Run that renders help leaves every field and the dispatch
\* flag set as the resolver left them: a field with no flag in the dispatch
\* flag set holds what it held before the call, and the flags registered by
\* the call are those of the commands the resolver matched, although the
\* help text shows the flags of the command and of each of its sub-commands.
C20_HelpFrame ==
    (call.op = "Run" /\ HelpTexts # {})
       => /\ fields = RunResolve(call.preSub, defaultCommand, call.preFs, call.preFields,
                                 call.args, call.line, call.point).fields
          /\ flagSet = RunResolve(call.preSub, defaultCommand, call.preFs, call.preFields,
                                  call.args, call.line, call.point).fs
          /\ \A a \in Addrs \ {f.addr : f \in flagSet} : fields[a] = call.preFields[a]
          /\ \A f \in flagSet \ call.preFs :
                \E i \in 1..Len(RunPath.seen) : RunPath.seen[i] = f.addr[1]

C20_Witness ==
    /\ call.op = "Run"
    /\ helpW = <<HelpText("root", "default", TRUE)>>
    /\ {"leafA", "queue"} \subseteq Rendered("root")
    /\ fields[<<"leafA", 2>>] = 5
    /\ call.preFs # {}
    /\ flagSet = call.preFs

\* the tokens of the last call lead to a command with sub-commands and go no
\* further: either no token is left there or the next one names none of its
\* children
FailsBelowRoot ==
    /\ RanNormally
    /\ Len(RunPath.seen) > 0
    /\ Cmd(RunPath.seen[Len(RunPath.seen)]).sub

\* the deepest command the tokens of the last call matched
Deepest == RunPath.seen[Len(RunPath.seen)]

\* C21 as stated: when resolution fails below the root, the help rendered is
\* that of the deepest command matched and never the root's, the error is
\* written to the error writer and no Run is invoked.
C21_Original ==
    FailsBelowRoot
       => /\ ran = <<>>
          /\ res.err # NoErr
          /\ \E i \in 1..Len(errW) : errW[i] = ErrLine(res.err)
          /\ \E i \in 1..Len(helpW \o errW) :
                (helpW \o errW)[i].kind = "help" /\ (helpW \o errW)[i].cmd = Deepest
          /\ \A i \in 1..Len(helpW \o errW) :
                (helpW \o errW)[i].kind = "help" => (helpW \o errW)[i].cmd # "root"

\* the names the tagged leaf fields of the struct of type t at path get when
\* a tagged struct T puts "T." before every name below it, however deep and
\* also through the untagged embedded structs inside it, and an untagged
\* embedded struct adds nothing to the names
RECURSIVE PrefixedNames(_, _, _)
PrefixedNames(t, path, prefix) ==
    UNION {LET f == StructDef(t)[i]
               addr == Append(path, i)
               name == IF prefix = <<>> THEN TagName(f.tag)
                       ELSE prefix \o <<".">> \o TagName(f.tag)
           IN  IF f.tag = <<>>
               THEN IF f.kind = "struct" THEN PrefixedNames(f.elem, addr, prefix) ELSE {}
               ELSE IF TagName(f.tag) = <<"-">> THEN {}
               ELSE IF f.kind = "struct" /\ f.custom = ""
                    THEN PrefixedNames(f.elem, addr, name)
                    ELSE {[name |-> name, addr |-> addr]}
           : i \in 1..Len(StructDef(t))}

\* C22 as stated: every flag the binder registers for a tagged leaf field
\* inside a struct-typed field tagged T, at any depth and also through the
\* untagged embedded structs inside it, is named with the prefix "T."; the
\* flags of an untagged embedded struct directly in the command have no prefix.
C22_Original ==
    call.op = "Bind"
       => \A f \in flagSet \ call.preFs :
             [name |-> f.name, addr |-> f.addr]
                \in PrefixedNames(Cmd(call.cmd).typ, <<call.cmd>>, <<>>)

\* the cursor offset the environment of the last call supplied, read as a
\* decimal number; -1 when there is none or it is no number
Offset ==
    CASE call.point = <<"0">> -> 0
      [] call.point = <<"4">> -> 4
      [] OTHER -> -1

\* the argument vector a completion line stands for: its pieces between
\* single spaces, the default command's name added when there is one piece
ArgsOfLine(line) ==
    IF Len(SplitSpace(line)) = 1 THEN Append(SplitSpace(line), defaultCommand)
    ELSE SplitSpace(line)

\* the outcomes of completing on the argument vector a from the state the
\* last call started from
CompletionsOn(a) ==
    LET r == GetSubCommand(RootKids(call.preSub), call.preFs, call.preFields, Tail(a))
    IN  {IF r.panic
         THEN Outcome(r.c, r.err, r.fs, r.fields, last, <<>>, <<>>, <<>>, TRUE)
         ELSE Outcome(r.c, r.err, r.fs, r.fields, last, Candidates(a, last, r.fs),
                      <<>>, <<>>, FALSE)
         : last \in LastNames(r.scan)}

\* C23: under the completion environment Run completes on the first p
\* characters of the line when the cursor offset is a number p with
\* 0 < p < the length of the line; with no offset, an offset that is no
\* number, an offset of 0 or below, or one at or past the end of the line, it
\* completes on the whole line.
C23_CursorOffset ==
    Completing
       => Observed \in CompletionsOn(ArgsOfLine(
                          IF 0 < Offset /\ Offset < Len(call.line)
                          THEN SubSeq(call.line, 1, Offset)
                          ELSE call.line))

\* C23 as stated: whenever a cursor offset is supplied, Run completes on the
\* line cut at that offset; without an offset on the whole line.
C23_Original ==
    Completing
       => Observed \in CompletionsOn(ArgsOfLine(
                          IF Offset >= 0 /\ Offset < Len(call.line)
                          THEN SubSeq(call.line, 1, Offset)
                          ELSE call.line))

C23_Witness ==
    /\ Completing
    /\ call.line = <<"p", " ", "b", " ", "x">>
    /\ call.point = <<"4">>
    /\ res.c = "queue"
    /\ CandidateTexts = {<<"x">>, <<"x", "r">>, <<"y">>}

\* C25: one call of CLI.Run invokes the Run of at most one command, and never
\* that of a command with the SubCommands capability: neither the root's nor
\* that of a command whose SubCommands mapping is empty.
C25_OnlyLeavesRun ==
    call.op = "Run"
       => /\ Len(ran) <= 1
          /\ \A i \in 1..Len(ran) : ran[i] # "root" /\ ~Cmd(ran[i]).sub

C25_Witness ==
    /\ RanNormally
    /\ Len(call.args) = 3
    /\ res.c = "dialer"
    /\ res.err = Err("wrong sub command")
    /\ ran = <<>>
    /\ ~panicked

\* the last call was a Run that went on to the resolver
Resolving == call.op = "Run" /\ (autoComplete \/ ~IsCompleteStarted(call.line))

\* the commands of the tree that have sub-commands
InternalCmds == {c \in TreeCmds : Cmd(c).sub}

\* what getSubCommand returns is a command or no error, and nothing at all
\* exactly when the first token names no child of the scanned node
PairOk(g, kids, tok) ==
    g.panic \/ (/\ g.err # NoErr => g.c # Nil
                /\ (g.c = Nil /\ g.err = NoErr) <=> tok \notin KidNames(kids))

\* C26: whenever getSubCommand returns an error, at the root or at any node
\* below it, it returns a command with it, and it returns no command and no
\* error exactly when the token names no child of the node it scans; help is
\* never rendered for no command.
C26_ErrorNamesCommand ==
    (Resolving /\ ~panicked)
       => /\ res.err # NoErr => res.c # Nil
          /\ (res.c = Nil /\ res.err = NoErr) <=> RunToks[1] \notin DOMAIN call.preSub
          /\ \A i \in 1..Len(helpW \o errW) :
                (helpW \o errW)[i].kind = "help" => (helpW \o errW)[i].cmd # Nil
          /\ \A q \in InternalCmds : \A k \in 1..Len(RunToks) :
                PairOk(GetSubCommand(Cmd(q).kids, call.preFs, call.preFields,
                                     SubSeq(RunToks, k, Len(RunToks))),
                       Cmd(q).kids, RunToks[k])

C26_Witness ==
    /\ RanNormally
    /\ ~panicked
    /\ Len(RunToks) = 2
    /\ RunToks[2] \notin KidNames(Cmd("queue").kids)
    /\ res.c = "queue"
    /\ res.err = Err("wrong sub command")
    /\ errW = <<ErrLine(res.err), HelpText("queue", HelpTemplate(template), TRUE)>>

\* the commands the tokens of the last call matched
Matches == {RunPath.seen[i] : i \in 1..Len(RunPath.seen)}

\* the flags of a flag set by name and field
NamedFlags(fs) == {[name |-> f.name, addr |-> f.addr] : f \in fs}

\* the last call resolved its tokens to a command
ResolvedPath == Resolving /\ ~panicked /\ res.err = NoErr /\ res.c # Nil

\* C27: a Run adds to the dispatch flag set only flags of the commands its
\* tokens matched and takes none away; after it resolved a path the flag set
\* holds the flags it held before the call and, besides them, exactly the
\* flags of the commands matched along the path, so that on a CLI whose flag
\* set was empty it holds exactly those, and a flag of a matched ancestor is
\* accepted among the leaf's tokens.
C27_PathFlags ==
    Resolving
       => /\ call.preFs \subseteq flagSet
          /\ \A f \in flagSet \ call.preFs :
                /\ f.addr[1] \in Matches
                /\ [name |-> f.name, addr |-> f.addr] \in DeclaredBy(f.addr[1])
          /\ ResolvedPath
                => /\ res.c = Deepest
                   /\ NamedFlags(flagSet) =
                         NamedFlags(call.preFs) \cup UNION {DeclaredBy(c) : c \in Matches}

\* C27 as stated: after resolving a path the flags registered in the dispatch
\* flag set are exactly the flags of the commands matched along that path.
C27_Original ==
    ResolvedPath => NamedFlags(flagSet) = UNION {DeclaredBy(c) : c \in Matches}

C27_Witness ==
    /\ RanNormally
    /\ ResolvedPath
    /\ call.preFs = {}
    /\ RunPath.seen = <<"queue", "info">>
    /\ <<"-", "v">> \in {RunToks[i] : i \in 1..Len(RunToks)}
    /\ fields[<<"queue", 1, 1>>] = TRUE
    /\ {f.name : f \in flagSet} = {<<"v">>, <<"b", ".", "v">>, <<"c">>, <<"q">>}

\* C28: a Run under the completion environment (COMP_LINE not empty) on a CLI
\* whose AutoComplete field is false returns at once: it resolves and binds
\* nothing (the flag set, the fields and the names left by the resolver stay
\* as they were), writes nothing to the help writer or the error writer and
\* invokes no Run or Parse, also when the arguments name a registered command.
C28_CompletionOff ==
    [][(call'.op = "Run" /\ IsCompleteStarted(call'.line) /\ ~autoComplete)
          => /\ UNCHANGED <<flagSet, fields, lastCommandsName, subCommands, defaultCommand,
                            template, autoComplete, panicked>>
             /\ helpW' = <<>>
             /\ errW' = <<>>
             /\ ran' = <<>>
             /\ parseCalls' = <<>>
             /\ res' = Res(Nil, NoErr, FALSE)]_vars

C28_Witness ==
    /\ call.op = "Run"
    /\ IsCompleteStarted(call.line)
    /\ ~autoComplete
    /\ call.args = <<Prog, NameA>>
    /\ NameA \in DOMAIN subCommands
    /\ ~Cmd(subCommands[NameA]).sub
    /\ flagSet = {}
    /\ helpW = <<>>
    /\ errW = <<>>
    /\ ran = <<>>

(***************************************************************************)
(* The tree-based variant of the engine.  CLI.Add builds a tree of nodes     *)
(* below commandSets["root"]; a node is named by the path of names leading   *)
(* to it and holds its command and its flagSetDone mark.  Every command has  *)
(* a flag set of its own (its Flagger): in flagSet these are the flags whose *)
(* address begins with the command.  What Run prints on the standard output  *)
(* is kept in helpW, what help writes on the standard error in errW; a help  *)
(* text is recorded by the command it is rendered for.                       *)
(***************************************************************************)

\* reflect's name of a struct type, letter by letter
TypeLetters(t) ==
    CASE t = "Echo" -> <<"E", "c", "h", "o">>
      [] t = "Get" -> <<"G", "e", "t">>
      [] t = "Kv" -> <<"K", "v">>

\* strings.ToLower on the letters in use
ToLower(s) ==
    [i \in 1..Len(s) |->
        CASE s[i] = "E" -> "e"
          [] s[i] = "G" -> "g"
          [] s[i] = "K" -> "k"
          [] OTHER -> s[i]]

\* what the command's SubCommands() returns in the tree-based variant
VariantSubs(c) == IF c = "kv" THEN <<"get">> ELSE <<>>

\* the nodes at and below path p, and the children of the node at p
Below(tree, p) == {q \in DOMAIN tree : Len(q) >= Len(p) /\ SubSeq(q, 1, Len(p)) = p}
NodesUnder(tree, p) == {q \in Below(tree, p) : Len(q) = Len(p) + 1}

\* the flag set of command c among the flags fs
FlagsOf(fs, c) == {f \in fs : f.addr[1] = c}

Node(c, done) == [cmd |-> c, done |-> done]

\* CLI.addTo(commandList, commandSet), commandSet being the node at path:
\* t = [tree, fs]
RECURSIVE TreeAddTo(_, _, _)
TreeAddTo(t, list, path) ==
    IF Len(list) = 0 THEN t
    ELSE IF ~Cmd(list[1]).ptr THEN TreeAddTo(t, Tail(list), path)
    ELSE TreeAddTo(
             TreeAddTo([tree |-> (Append(path, ToLower(TypeLetters(Cmd(list[1]).typ)))
                                     :> Node(list[1], FALSE))
                                 @@ [q \in DOMAIN t.tree
                                          \ Below(t.tree,
                                                  Append(path,
                                                         ToLower(TypeLetters(Cmd(list[1]).typ))))
                                       |-> t.tree[q]],
                        fs |-> t.fs \ FlagsOf(t.fs, list[1])],
                       VariantSubs(list[1]),
                       Append(path, ToLower(TypeLetters(Cmd(list[1]).typ)))),
             Tail(list), path)

\* the variant's defineFlagSet: one field of its loop, and the loop over the
\* fields i.. of the struct of type t at path.  ro: reached through an
\* unexported field.  The struct is reached through the command pointer, so
\* CanAddr holds.
RECURSIVE TreeDefineFrom(_, _, _, _, _)
TreeDefineField(b, f, addr, ro) ==
    IF f.kind = "struct" THEN TreeDefineFrom(b, f.elem, addr, ro \/ ~f.exp, 1)
    ELSE IF f.tag = <<>> THEN b
    ELSE IF ro \/ ~f.exp THEN [b EXCEPT !.err = Err("field is unexported")]
    ELSE IF f.custom # ""
         THEN FlagSetVar(b, TagName(f.tag), addr, f.kind, f.custom, TagUsage(f.tag))
         ELSE IF f.kind \in PrimitiveKinds
              THEN FlagSetPrimVar(b, TagName(f.tag), addr, f.kind, b.fields[addr],
                                  TagUsage(f.tag))
              ELSE [b EXCEPT !.err =
                      ErrFlag("field with flag tag value is of unsupported type",
                              TagName(f.tag))]

TreeDefineFrom(b, t, path, ro, i) ==
    IF b.err # NoErr \/ b.panic \/ i > Len(StructDef(t)) THEN b
    ELSE TreeDefineFrom(TreeDefineField(b, StructDef(t)[i], Append(path, i), ro),
                        t, path, ro, i + 1)

\* the engine's state s = [tree, fs, fields, panic] once the command of the
\* node at p is bound with result b; the error of the binding is dropped by
\* every caller
TreeBound(s, p, b) ==
    [tree |-> [s.tree EXCEPT ![p].done = TRUE],
     fs |-> (s.fs \ FlagsOf(s.fs, s.tree[p].cmd)) \cup b.fs,
     fields |-> b.fields,
     panic |-> b.panic]

\* the variant's getFlagSet(c) for the node at p; the root's mark is set
\* from the start
TreeGetFlagSet(s, p) ==
    IF p = <<>> \/ s.tree[p].done THEN s
    ELSE IF ~Cmd(s.tree[p].cmd).ptr
         THEN [s EXCEPT !.tree[p].done = TRUE]
         ELSE TreeBound(s, p,
                        TreeDefineFrom([fs |-> FlagsOf(s.fs, s.tree[p].cmd),
                                        fields |-> s.fields, err |-> NoErr, panic |-> FALSE],
                                       Cmd(s.tree[p].cmd).typ, <<s.tree[p].cmd>>, FALSE, 1))

TreeResolved(p, err, s) == [c |-> p, err |-> err, s |-> s]

\* the tokens the leaf matched by args[1] hands to Parse: args[2:], and none
\* when nothing follows the name
TreeLeafArgs(args) == IF Len(args) > 1 THEN SubSeq(args, 3, Len(args)) ELSE <<>>

\* the matched leaf at p after r, its Parse
TreeLeafParsed(s, p, r) == TreeResolved(p, r.err, [s EXCEPT !.fields = r.fields])

\* what the caller at p makes of the recursive call's result sub
TreeAfterSub(p, sub) ==
    IF sub.s.panic THEN sub
    ELSE IF sub.err # NoErr THEN TreeResolved(p, sub.err, sub.s)
    ELSE IF sub.c = Nil THEN TreeResolved(p, Err("missing sub command"), sub.s)
    ELSE sub

RECURSIVE TreeGetSubCommand(_, _, _)
\* the node at p matched args[1]; s is the state after its binding
TreeMatched(s, p, args) ==
    IF s.panic THEN TreeResolved(p, NoErr, s)
    ELSE IF NodesUnder(s.tree, p) # {}
         THEN IF Len(args) <= 1
              THEN TreeResolved(p, Err("missing sub command"), s)
              ELSE TreeAfterSub(p, TreeGetSubCommand(s, p, Tail(args)))
         ELSE TreeLeafParsed(s, p,
                             FlagParse(FlagsOf(s.fs, s.tree[p].cmd), s.fields,
                                       TreeLeafArgs(args)))

\* the variant's getSubCommand(commandSet, args), commandSet being the node at path
TreeGetSubCommand(s, path, args) ==
    IF Append(path, args[1]) \in DOMAIN s.tree
    THEN TreeMatched(TreeGetFlagSet(s, Append(path, args[1])), Append(path, args[1]), args)
    ELSE TreeResolved(Nil, NoErr, s)

\* binding the nodes ps one after the other; each binds to the flag set of
\* its own command
RECURSIVE TreeBindAll(_, _)
TreeBindAll(s, ps) ==
    IF ps = {} \/ s.panic THEN s
    ELSE TreeBindAll(TreeGetFlagSet(s, CHOOSE p \in ps : TRUE),
                     ps \ {CHOOSE p \in ps : TRUE})

\* the variant's help(command) for the node at p: the node and its children
\* are bound, then the template is rendered on the standard error
TreeHelp(s, p) == TreeBindAll(TreeGetFlagSet(s, p), NodesUnder(s.tree, p))

\* the command of the node at p
CommandAt(tree, p) == IF p = <<>> THEN "root" ELSE tree[p].cmd

\* the end of the variant's Run: o = [s, c, err, out, help, ran]
TreeOutcome(s, c, err, out, help, r) ==
    [s |-> s, c |-> c, err |-> err, out |-> out,
     help |-> IF s.panic THEN <<>> ELSE help, ran |-> r]

\* the variant's Run from the resolver's result r on
TreeDispatch(r) ==
    IF r.s.panic THEN TreeOutcome(r.s, Nil, NoErr, <<>>, <<>>, <<>>)
    ELSE IF r.err # NoErr
    THEN TreeOutcome(TreeHelp(r.s, r.c), CommandAt(r.s.tree, r.c), r.err,
                     <<ErrLine(r.err)>>,
                     <<HelpText(CommandAt(r.s.tree, r.c), "default", TRUE)>>, <<>>)
    ELSE IF r.c = Nil
    THEN TreeOutcome(TreeHelp(r.s, <<>>), Nil, NoErr, <<>>,
                     <<HelpText("root", "default", TRUE)>>, <<>>)
    ELSE TreeOutcome(r.s, CommandAt(r.s.tree, r.c), NoErr, <<>>, <<>>,
                     <<CommandAt(r.s.tree, r.c)>>)

\* the argument vector the variant's resolver works on
TreeRunArgs(args, dflt) == IF Len(args) = 1 THEN Append(args, dflt) ELSE args

TreeEnds(o) ==
    /\ commandSets' = o.s.tree
    /\ flagSet' = o.s.fs
    /\ fields' = o.s.fields
    /\ panicked' = o.s.panic
    /\ helpW' = o.out
    /\ errW' = o.help
    /\ ran' = o.ran
    /\ res' = Res(o.c, o.err, FALSE)

\* the names of the variant's commands, and its default command after New
NameEcho == ToLower(TypeLetters("Echo"))
NameKv == ToLower(TypeLetters("Kv"))
NameGet == ToLower(TypeLetters("Get"))
NameHelp == <<"h", "e", "l", "p">>

\* the command lists a host adds; every command value is added in one place
TreeAdds == {<<"echo">>, <<"kv">>, <<"echoV">>, <<"echoV", "echo", "kv">>}

TreeDefaults == {NameEcho, NameKv}

TreeArgVs ==
    {<<Prog>>,
     <<Prog, NameEcho>>,
     <<Prog, NameEcho, <<"-", "e", "=", "w">>>>,
     <<Prog, NameEcho, <<"-", "n">>, <<"4">>>>,
     <<Prog, NameEcho, <<"x">>, <<"-", "n">>, <<"4">>>>,
     <<Prog, NameEcho, <<"-", "z">>, <<"-", "n", "=", "k">>>>,
     <<Prog, NameEcho, <<"-", "n", "=", "7">>, <<"-", "e">>, <<"w">>>>,
     <<Prog, NameKv>>,
     <<Prog, NameKv, NameGet>>,
     <<Prog, NameKv, NameGet, <<"-", "v">>>>,
     <<Prog, NameKv, NameGet, <<"x">>, <<"-", "v">>>>,
     <<Prog, NameKv, <<"z">>>>,
     <<Prog, <<"z">>>>}

TreeInit ==
    /\ subCommands = <<>>
    /\ firstAdded = <<>>
    /\ defaultCommand = NameHelp
    /\ template = "default"
    /\ autoComplete = TRUE
    /\ flagSet = {}
    /\ fields = InitFields
    /\ lastCommandsName = <<>>
    /\ helpW = <<>>
    /\ errW = <<>>
    /\ ran = <<>>
    /\ parseCalls = <<>>
    /\ panicked = FALSE
    /\ call = [op |-> "New", name |-> <<>>, cmd |-> Nil, args |-> <<>>, line |-> <<>>,
               point |-> <<>>, preSub |-> <<>>, preFs |-> {}, preFields |-> InitFields]
    /\ res = Res(Nil, NoErr, FALSE)
    /\ runs = 0
    /\ commandSets = <<>>

\* the state the addition t = [tree, fs] is
TreeAdded(t) ==
    /\ commandSets' = t.tree
    /\ flagSet' = t.fs

\* the variant's CLI.Add(commands...)
TreeAdd(list) ==
    /\ ~panicked
    /\ TreeAdded(TreeAddTo([tree |-> commandSets, fs |-> flagSet], list, <<>>))
    /\ call' = Call("Add", <<>>, Nil, list, <<>>, <<>>)
    /\ res' = Res(Nil, NoErr, FALSE)
    /\ helpW' = <<>> /\ errW' = <<>> /\ ran' = <<>>
    /\ UNCHANGED <<subCommands, firstAdded, defaultCommand, template, autoComplete, fields,
                   lastCommandsName, parseCalls, panicked, runs>>

\* the variant's CLI.SetDefault(command)
TreeSetDefault(name) ==
    /\ ~panicked
    /\ defaultCommand' = name
    /\ call' = Call("SetDefault", name, Nil, <<>>, <<>>, <<>>)
    /\ res' = Res(Nil, NoErr, FALSE)
    /\ helpW' = <<>> /\ errW' = <<>> /\ ran' = <<>>
    /\ UNCHANGED <<subCommands, firstAdded, template, autoComplete, flagSet, fields,
                   lastCommandsName, parseCalls, panicked, runs, commandSets>>

\* the variant's CLI.Run(ctx, args)
TreeRun(args) ==
    /\ ~panicked
    /\ runs < MaxRuns
    /\ runs' = runs + 1
    /\ call' = Call("Run", <<>>, Nil, args, <<>>, <<>>)
    /\ TreeEnds(TreeDispatch(
           TreeGetSubCommand([tree |-> commandSets, fs |-> flagSet, fields |-> fields,
                              panic |-> FALSE],
                             <<>>, Tail(TreeRunArgs(args, defaultCommand)))))
    /\ UNCHANGED <<subCommands, firstAdded, defaultCommand, template, autoComplete,
                   lastCommandsName, parseCalls>>

TreeNext ==
    \/ \E list \in TreeAdds : TreeAdd(list)
    \/ \E n \in TreeDefaults : TreeSetDefault(n)
    \/ \E args \in TreeArgVs : TreeRun(args)

TreeSpec == TreeInit /\ [][TreeNext]_vars

\* reading tokens as a path of names from the node at p down to the first
\* node without children, and the tokens left
RECURSIVE TreeWalk(_, _)
TreeWalk(p, toks) ==
    IF Len(toks) = 0 \/ Append(p, toks[1]) \notin DOMAIN commandSets
    THEN [path |-> p, rest |-> toks]
    ELSE IF NodesUnder(commandSets, Append(p, toks[1])) # {}
         THEN TreeWalk(Append(p, toks[1]), Tail(toks))
         ELSE [path |-> Append(p, toks[1]), rest |-> Tail(toks)]

\* the walk of the last call's tokens
TreePath == TreeWalk(<<>>, Tail(TreeRunArgs(call.args, defaultCommand)))

\* the last call was a Run whose tokens lead to a leaf
TreeMatchedLeaf ==
    /\ call.op = "Run"
    /\ TreePath.path # <<>>
    /\ NodesUnder(commandSets, TreePath.path) = {}

\* C24 as stated: in the tree-based variant, when the tokens lead to a leaf,
\* all tokens after the leaf's name are passed to the leaf's Parse: the call
\* ends as parsing exactly those tokens on the leaf's flag set ends, and the
\* leaf runs when that parse succeeds.
C24_Original ==
    TreeMatchedLeaf
       => /\ fields = FlagParse(FlagsOf(flagSet, commandSets[TreePath.path].cmd),
                                call.preFields, TreePath.rest).fields
          /\ res.err = FlagParse(FlagsOf(flagSet, commandSets[TreePath.path].cmd),
                                 call.preFields, TreePath.rest).err
          /\ res.err = NoErr => ran = <<commandSets[TreePath.path].cmd>>

====
